---- MODULE Spec2Model ----
(***************************************************************************)
(* A model of one distance-vector routing node: the routing-state model    *)
(* DVModel (src/model.py), the command parser parse_command (src/main.py)  *)
(* and the three-thread runtime NetworkNode (src/node.py).                 *)
(*                                                                         *)
(* Text is modelled at the character level: a Python str is a sequence of  *)
(* one-character strings, so that split(), float(), int() and the f-string *)
(* formatting of generate_update are computed, not assumed.                *)
(*                                                                         *)
(* A cost (a Python float) is modelled by an integer number of tenths:     *)
(* 25 stands for 2.5.  The modelled input domain is the decimal numerals   *)
(* with at most one significant fractional digit; exponents, inf, nan and  *)
(* the negative zero are outside it.                                       *)
(***************************************************************************)
EXTENDS Integers, Sequences, FiniteSets, TLC

(***************************************************************************)
(* Bounds of the model.                                                    *)
(***************************************************************************)
\* number of lines that arrive at the node in one behaviour
MaxLines == 3
\* number of heap pops after which _dijkstra is taken not to return
MaxPops == 24
\* tokens on a line given to parse_command on its own
MaxTokens == 5
\* calls of DVModel methods made on a DVModel on its own
MaxCalls == 2

(***************************************************************************)
(* Characters and strings.                                                 *)
(***************************************************************************)
\* the characters in use, in code-point order (Python compares str by code point)
Alphabet ==
  << " ", "+", ",", "-", ".",
     "0", "1", "2", "3", "4", "5", "6", "7", "8", "9", ":",
     "A", "B", "C", "D", "E", "F", "G", "H", "I", "J", "K", "L", "M",
     "N", "O", "P", "Q", "R", "S", "T", "U", "V", "W", "X", "Y", "Z", "x" >>

Ord(c) == CHOOSE i \in 1..Len(Alphabet) : Alphabet[i] = c

IsDigit(c) == c \in {"0", "1", "2", "3", "4", "5", "6", "7", "8", "9"}

DigitVal(c) == Ord(c) - Ord("0")

DigitChar(d) == Alphabet[Ord("0") + d]

IsUpper(c) == Ord(c) >= Ord("A") /\ Ord(c) <= Ord("Z")

\* Python's a < b on str
RECURSIVE StrLess(_, _)
StrLess(a, b) ==
  IF b = <<>> THEN FALSE
  ELSE IF a = <<>> THEN TRUE
  ELSE IF Head(a) = Head(b) THEN StrLess(Tail(a), Tail(b))
  ELSE Ord(Head(a)) < Ord(Head(b))

\* sorted(S) for a set S of str
RECURSIVE Sorted(_)
Sorted(S) ==
  IF S = {} THEN <<>>
  ELSE LET lo == CHOOSE x \in S : \A y \in S \ {x} : StrLess(x, y)
       IN  <<lo>> \o Sorted(S \ {lo})

\* str.strip()
RECURSIVE LStrip(_)
LStrip(s) == IF s # <<>> /\ Head(s) = " " THEN LStrip(Tail(s)) ELSE s

RECURSIVE RStrip(_)
RStrip(s) ==
  IF s # <<>> /\ s[Len(s)] = " " THEN RStrip(SubSeq(s, 1, Len(s) - 1)) ELSE s

Strip(s) == RStrip(LStrip(s))

\* str.split(sep) for a one-character sep: always at least one piece
RECURSIVE SplitOn(_, _)
SplitOn(s, sep) ==
  IF \A i \in 1..Len(s) : s[i] # sep THEN <<s>>
  ELSE LET k == CHOOSE i \in 1..Len(s) :
                  s[i] = sep /\ \A j \in 1..(i - 1) : s[j] # sep
       IN  <<SubSeq(s, 1, k - 1)>> \o SplitOn(SubSeq(s, k + 1, Len(s)), sep)

\* str.split(): pieces between runs of whitespace, no empty piece
SplitWs(s) == SelectSeq(SplitOn(s, " "), LAMBDA t : t # <<>>)

\* sep.join(parts)
RECURSIVE Join(_, _)
Join(parts, sep) ==
  IF parts = <<>> THEN <<>>
  ELSE IF Len(parts) = 1 THEN parts[1]
  ELSE parts[1] \o sep \o Join(Tail(parts), sep)

(***************************************************************************)
(* Numbers: int(), float() and their formatting by an f-string.            *)
(***************************************************************************)
AllDigits(s) == \A i \in 1..Len(s) : IsDigit(s[i])

\* value of a non-empty digit string
RECURSIVE DigitsVal(_)
DigitsVal(s) ==
  IF s = <<>> THEN 0
  ELSE 10 * DigitsVal(SubSeq(s, 1, Len(s) - 1)) + DigitVal(s[Len(s)])

\* str(n) for n >= 0
RECURSIVE NatStr(_)
NatStr(n) ==
  IF n < 10 THEN <<DigitChar(n)>> ELSE NatStr(n \div 10) \o <<DigitChar(n % 10)>>

HasSign(s) == s # <<>> /\ Head(s) \in {"+", "-"}

Unsigned(s) == IF HasSign(s) THEN Tail(s) ELSE s

SignOf(s) == IF s # <<>> /\ Head(s) = "-" THEN -1 ELSE 1

\* int(s): ok is FALSE where Python raises ValueError
ParseInt(s) ==
  LET t == Strip(s)
      u == Unsigned(t)
  IN  IF u # <<>> /\ AllDigits(u)
      THEN [ok |-> TRUE, val |-> SignOf(t) * DigitsVal(u)]
      ELSE [ok |-> FALSE, val |-> 0]

\* str(n) for an int
FormatInt(n) == IF n < 0 THEN <<"-">> \o NatStr(-n) ELSE NatStr(n)

\* float(s), in tenths: ok is FALSE where Python raises ValueError.
\* [sign] digits [ "." digits ], not both digit strings empty; fractional
\* digits after the first must be zeros (the modelled domain).
ParseFloat(s) ==
  LET t == Strip(s)
      u == Unsigned(t)
      p == SplitOn(u, ".")
      ip == p[1]
      fp == IF Len(p) = 2 THEN p[2] ELSE <<>>
      shape == /\ Len(p) <= 2
               /\ AllDigits(ip) /\ AllDigits(fp)
               /\ ip \o fp # <<>>
               /\ \A i \in 2..Len(fp) : fp[i] = "0"
      tenth == IF fp = <<>> THEN 0 ELSE DigitVal(fp[1])
  IN  IF shape
      THEN [ok |-> TRUE, val |-> SignOf(t) * (10 * DigitsVal(ip) + tenth)]
      ELSE [ok |-> FALSE, val |-> 0]

\* str(x) for a float x given in tenths: repr always shows one fractional digit here
FormatFloat(v) ==
  LET a == IF v < 0 THEN -v ELSE v
  IN  (IF v < 0 THEN <<"-">> ELSE <<>>) \o NatStr(a \div 10) \o <<".">> \o <<DigitChar(a % 10)>>

(***************************************************************************)
(* parse_command (src/main.py).                                            *)
(***************************************************************************)
kUPDATE  == <<"U", "P", "D", "A", "T", "E">>
kCHANGE  == <<"C", "H", "A", "N", "G", "E">>
kFAIL    == <<"F", "A", "I", "L">>
kRECOVER == <<"R", "E", "C", "O", "V", "E", "R">>
kQUERY   == <<"Q", "U", "E", "R", "Y">>
kPATH    == <<"P", "A", "T", "H">>
kMERGE   == <<"M", "E", "R", "G", "E">>
kSPLIT   == <<"S", "P", "L", "I", "T">>
kRESET   == <<"R", "E", "S", "E", "T">>
kCYCLE   == <<"C", "Y", "C", "L", "E">>
kDETECT  == <<"D", "E", "T", "E", "C", "T">>
kBATCH   == <<"B", "A", "T", "C", "H">>

\* a check_node_id that accepts any single character
ValidNodeIdAnyChar(tok) == Len(tok) = 1

\* re.match("^[A-Z]$", node_id)
ValidNodeId(tok) == Len(tok) = 1 /\ IsUpper(tok[1])

\* results of parse_command: a command dict, None, or exit(2)
Cmd(c, a) == [status |-> "ok", command |-> c, args |-> a]
NoCmd     == [status |-> "none", command |-> "", args |-> <<>>]
Exit2     == [status |-> "exit2", command |-> "", args |-> <<>>]

ParseCommand(line) ==
  LET tokens == SplitWs(Strip(line))
      n == Len(tokens)
      command == tokens[1]
  IN  IF n = 0 THEN NoCmd
      ELSE IF command = kUPDATE THEN
        IF n # 3 THEN Exit2 ELSE Cmd("UPDATE", <<tokens[2], tokens[3]>>)
      ELSE IF command = kCHANGE THEN
        IF n # 3 THEN Exit2
        ELSE IF ~ValidNodeId(tokens[2]) THEN Exit2
        ELSE IF ~ParseFloat(tokens[3]).ok THEN Exit2
        ELSE Cmd("CHANGE", <<tokens[2], ParseFloat(tokens[3]).val>>)
      ELSE IF command = kFAIL THEN
        IF n # 2 THEN Exit2
        ELSE IF ~ValidNodeId(tokens[2]) THEN Exit2
        ELSE Cmd("FAIL", <<tokens[2]>>)
      ELSE IF command = kRECOVER THEN
        IF n # 2 THEN Exit2
        ELSE IF ~ValidNodeId(tokens[2]) THEN Exit2
        ELSE Cmd("RECOVER", <<tokens[2]>>)
      ELSE IF command = kQUERY THEN
        IF n = 2 THEN
          IF ~ValidNodeId(tokens[2]) THEN Exit2 ELSE Cmd("QUERY", <<tokens[2]>>)
        ELSE IF n = 3 /\ tokens[2] = kPATH THEN
          IF ~ValidNodeId(tokens[3]) THEN Exit2 ELSE Cmd("QUERY_PATH", <<tokens[3]>>)
        ELSE IF n = 4 /\ tokens[2] = kPATH THEN
          IF ~ValidNodeId(tokens[3]) \/ ~ValidNodeId(tokens[4]) THEN Exit2
          ELSE Cmd("QUERY_PATH", <<tokens[3], tokens[4]>>)
        ELSE Exit2
      ELSE IF command = kMERGE THEN
        IF n # 3 THEN Exit2
        ELSE IF ~ValidNodeId(tokens[2]) \/ ~ValidNodeId(tokens[3]) THEN Exit2
        ELSE Cmd("MERGE", <<tokens[2], tokens[3]>>)
      ELSE IF command = kSPLIT THEN
        IF n # 1 THEN Exit2 ELSE Cmd("SPLIT", <<>>)
      ELSE IF command = kRESET THEN
        IF n # 1 THEN Exit2 ELSE Cmd("RESET", <<>>)
      ELSE IF command = kCYCLE /\ n > 1 /\ tokens[2] = kDETECT THEN
        IF n # 2 THEN Exit2 ELSE Cmd("CYCLE_DETECT", <<>>)
      ELSE IF command = kBATCH /\ n > 1 /\ tokens[2] = kUPDATE THEN
        IF n # 3 THEN Exit2 ELSE Cmd("BATCH_UPDATE", <<tokens[3]>>)
      ELSE Exit2

(***************************************************************************)
(* DVModel (src/model.py).  The model's state is a record                  *)
(*   rt       routing_tables: node id -> (destination id -> edge)          *)
(*   down     down_nodes                                                   *)
(*   enabled  the enabled flag                                             *)
(*   initial  initial_table                                                *)
(*   cached   NetworkNode.cached, written by the on_broadcast callback     *)
(*   sent     the datagrams handed to NetworkNode.send by this handler     *)
(*   out      the messages printed by this handler, in order               *)
(*   exc      the exception that ended the handler, "none" otherwise;      *)
(*            "hang" when the handler does not return                      *)
(*   calls    history: the calls of run_command made by this handler, the  *)
(*            nested ones of batch_update included, each with the state    *)
(*            it was called on and the state it left                       *)
(* A dict is a function; the empty dict is the empty function <<>>.        *)
(* Node ids are strings, as in the source.                                 *)
(***************************************************************************)
\* the node id given on the command line
MyId == <<"A">>

\* Python's None where a str is expected
None == <<"None">>

EmptyDict == <<>>

\* NetworkNode.cached = None
NoCache == [set |-> FALSE, m |-> EmptyDict, message |-> None]

\* a printed message: the fixed text it starts with and its formatted fields
Msg(kind, args) == [kind |-> kind, args |-> args]

\* callback_obj.info(msg) / print(msg)
Info(m, msg) == [m EXCEPT !.out = Append(@, msg)]

Put(f, k, v) == [y \in DOMAIN f \cup {k} |-> IF y = k THEN v ELSE f[y]]

Del(f, k) == [y \in DOMAIN f \ {k} |-> f[y]]

\* routing_tables is a defaultdict(dict): reading routing_tables[k] creates the row
Touch(rt, k) == IF k \in DOMAIN rt THEN rt ELSE Put(rt, k, EmptyDict)

\* f"{dest}:{info['cost']}:{info['port']}"
RouteStr(dest, info) ==
  dest \o <<":">> \o FormatFloat(info.cost) \o <<":">> \o FormatInt(info.port)

RouteStrs(row) ==
  LET ds == Sorted(DOMAIN row)
  IN  [i \in 1..Len(ds) |-> RouteStr(ds[i], row[ds[i]])]

GenerateUpdate(rt, id) ==
  IF id \notin DOMAIN rt THEN None
  ELSE kUPDATE \o <<" ">> \o id \o <<" ">> \o Join(RouteStrs(rt[id]), <<",">>)

\* a get_neighbours that does not look at the enabled flag
GetNeighboursWhileDisabled(m) ==
  [rt |-> Touch(m.rt, MyId),
   nb |-> [k \in (DOMAIN Touch(m.rt, MyId)[MyId] \ {MyId}) \ m.down |-> Touch(m.rt, MyId)[MyId][k]]]

\* returns the neighbours and the routing tables after the defaultdict read
GetNeighbours(m) ==
  IF ~m.enabled THEN [rt |-> m.rt, nb |-> EmptyDict]
  ELSE LET rt1 == Touch(m.rt, MyId)
           row == rt1[MyId]
       IN  [rt |-> rt1,
            nb |-> [k \in (DOMAIN row \ {MyId}) \ m.down |-> row[k]]]

\* NetworkNode.send for every neighbour of the dict nb
Datagrams(nb, message, who) ==
  {[to |-> k, port |-> nb[k].port, message |-> message, by |-> who] : k \in DOMAIN nb}

\* on_broadcast once get_neighbours has returned g
CacheAndSend(m, message, g) ==
  [m EXCEPT !.rt = g.rt,
            !.cached = [set |-> TRUE, m |-> g.nb, message |-> message],
            !.sent = @ \cup Datagrams(g.nb, message, "calc"),
            !.out = Append(@, Msg("broadcast", <<message>>))]

\* NetworkNode.on_broadcast
OnBroadcast(m, message) == CacheAndSend(m, message, GetNeighbours(m))

Broadcast(m) == OnBroadcast(m, GenerateUpdate(m.rt, MyId))

\* (d1, n1) < (d2, n2) on the tuples of the heap
HeapLess(e, f) == e[1] < f[1] \/ (e[1] = f[1] /\ StrLess(e[2], f[2]))

\* the while loop of _dijkstra.  pq is the heap, a set: an entry is pushed only
\* on a strict improvement of its node's distance, so no entry is pushed twice.
\* The relaxations of one pop touch distinct keys, so they are done together.
\* hang is TRUE when the loop has not ended after MaxPops pops.
RECURSIVE DijkstraLoop(_, _, _, _, _, _)
DijkstraLoop(rt, down, pq, distances, previous, fuel) ==
  IF pq = {} THEN [distances |-> distances, previous |-> previous, hang |-> FALSE]
  ELSE IF fuel = 0 THEN [distances |-> distances, previous |-> previous, hang |-> TRUE]
  ELSE LET top == CHOOSE e \in pq : \A f \in pq \ {e} : HeapLess(e, f)
           dist == top[1]
           current == top[2]
           pq1 == pq \ {top}
       IN  IF current \in down \/ current \notin DOMAIN rt
           THEN DijkstraLoop(rt, down, pq1, distances, previous, fuel - 1)
           ELSE LET row == rt[current]
                    better == {n \in DOMAIN row \ down :
                                 \/ n \notin DOMAIN distances
                                 \/ dist + row[n].cost < distances[n]}
                IN  DijkstraLoop(rt, down,
                      pq1 \cup {<<dist + row[n].cost, n>> : n \in better},
                      [n \in DOMAIN distances \cup better |->
                         IF n \in better THEN dist + row[n].cost ELSE distances[n]],
                      [n \in DOMAIN previous \cup better |->
                         IF n \in better THEN current ELSE previous[n]],
                      fuel - 1)

\* a _dijkstra that does not look at down_nodes
DijkstraThroughDown(rt, down, start) ==
  DijkstraLoop(rt, {}, {<<0, start>>}, (start :> 0), EmptyDict, MaxPops)

\* _dijkstra(start): distances in tenths
Dijkstra(rt, down, start) ==
  DijkstraLoop(rt, down, {<<0, start>>}, (start :> 0), EmptyDict, MaxPops)

\* _recalculate_routes: the result of _dijkstra is dropped
RecalculateRoutes(m) ==
  IF Dijkstra(m.rt, m.down, MyId).hang THEN [m EXCEPT !.exc = "hang"] ELSE m

\* the backtracking loop of query_path: the nodes from current back to the
\* one without a predecessor, in the order they are appended; <<>> stands for
\* a loop that does not end
RECURSIVE BackTrack(_, _, _)
BackTrack(previous, current, fuel) ==
  IF current \notin DOMAIN previous THEN <<current>>
  ELSE IF fuel = 0 THEN <<>>
  ELSE LET r == BackTrack(previous, previous[current], fuel - 1)
       IN  IF r = <<>> THEN <<>> ELSE <<current>> \o r

\* path.reverse()
Reverse(s) == [i \in 1..Len(s) |-> s[Len(s) + 1 - i]]

\* a query_path that forgets path.reverse()
PathOfUnreversed(previous, start, dest) ==
  LET back == BackTrack(previous, dest, Cardinality(DOMAIN previous))
  IN  IF back = <<>> THEN <<>>
      ELSE SubSeq(back, 1, Len(back) - 1) \o <<start>>

\* the path of query_path: the backtracked nodes, then start, reversed.  The
\* backtracking stops at the node without predecessor and does not append it.
PathOf(previous, start, dest) ==
  LET back == BackTrack(previous, dest, Cardinality(DOMAIN previous))
  IN  IF back = <<>> THEN <<>>
      ELSE Reverse(SubSeq(back, 1, Len(back) - 1) \o <<start>>)

\* f"{distances[dest]}": the int 0 of the start node, a float otherwise
FormatDistance(r, dest) ==
  IF dest \notin DOMAIN r.previous /\ r.distances[dest] = 0 THEN <<"0">>
  ELSE FormatFloat(r.distances[dest])

NoPathMsg(start, dest) == Msg("No path exists", <<start, dest>>)

PathMsg(start, dest, path, cost) == Msg("Least cost path", <<start, dest, path, cost>>)

\* query_path once the path is rebuilt
ReportPath(m, start, dest, r, path) ==
  IF path = <<>> THEN [m EXCEPT !.exc = "hang"]
  ELSE Info(m, PathMsg(start, dest, Join(path, <<>>), FormatDistance(r, dest)))

\* query_path once _dijkstra has returned r
ReportDistance(m, start, dest, silent, r) ==
  IF r.hang THEN [m EXCEPT !.exc = "hang"]
  ELSE IF dest \notin DOMAIN r.distances
  THEN IF silent THEN m ELSE Info(m, NoPathMsg(start, dest))
  ELSE ReportPath(m, start, dest, r, PathOf(r.previous, start, dest))

\* a query_path without the test of start and dest against down_nodes
QueryPathNoDownTest(m, start, dest, silent) ==
  ReportDistance(m, start, dest, silent, Dijkstra(m.rt, m.down, start))

QueryPath(m, start, dest, silent) ==
  IF start \in m.down \/ dest \in m.down
  THEN IF silent THEN m ELSE Info(m, NoPathMsg(start, dest))
  ELSE ReportDistance(m, start, dest, silent, Dijkstra(m.rt, m.down, start))

Query(m, dest) == QueryPath(m, MyId, dest, FALSE)

\* the loop of print_routing_table over the sorted destinations
RECURSIVE PrintRoutes(_, _)
PrintRoutes(m, destinations) ==
  IF destinations = <<>> \/ m.exc # "none" THEN m
  ELSE IF Head(destinations) = MyId THEN PrintRoutes(m, Tail(destinations))
  ELSE PrintRoutes(QueryPath(m, MyId, Head(destinations), TRUE), Tail(destinations))

\* print_routing_table: reads routing_tables[my_id], which creates the row
PrintRoutingTable(m) ==
  PrintRoutes([m EXCEPT !.rt = Touch(m.rt, MyId),
                        !.out = Append(@, Msg("I am Node", <<MyId>>))],
              Sorted(DOMAIN Touch(m.rt, MyId)[MyId]))

\* the keys of a dict in iteration order.  A dict is modelled as a function,
\* which has no insertion order: the order is given by a sequence of all ids.
Keys(d, order) == SelectSeq(order, LAMBDA k : k \in DOMAIN d)

\* the for loop of bfs_cycle_detect over the row of the dequeued node
RECURSIVE BfsScan(_, _, _, _, _)
BfsScan(nexts, path, visited, queue, down) ==
  IF nexts = <<>> THEN [found |-> FALSE, visited |-> visited, queue |-> queue]
  ELSE LET next_node == Head(nexts)
       IN  IF next_node \in down THEN BfsScan(Tail(nexts), path, visited, queue, down)
           ELSE IF \E i \in 1..Len(path) : path[i] = next_node
           THEN [found |-> TRUE, visited |-> visited, queue |-> queue]
           ELSE IF next_node \notin visited
           THEN BfsScan(Tail(nexts), path, visited \cup {next_node},
                        Append(queue, [node |-> next_node, path |-> Append(path, next_node)]),
                        down)
           ELSE BfsScan(Tail(nexts), path, visited, queue, down)

\* the while loop of bfs_cycle_detect: TRUE when it returns a cycle
RECURSIVE BfsLoop(_, _, _, _, _)

\* after the for loop over one row, with its result s
BfsNext(rt, down, order, s) ==
  IF s.found THEN TRUE ELSE BfsLoop(rt, down, s.queue, s.visited, order)

BfsLoop(rt, down, queue, visited, order) ==
  IF queue = <<>> THEN FALSE
  ELSE LET node == Head(queue).node
           path == Head(queue).path
       IN  IF node \notin DOMAIN rt THEN BfsLoop(rt, down, Tail(queue), visited, order)
           ELSE BfsNext(rt, down, order,
                        BfsScan(Keys(rt[node], order), path, visited, Tail(queue), down))

\* a bfs_cycle_detect that walks through down nodes
BfsCycleDetectThroughDown(rt, down, start, order) ==
  BfsLoop(rt, {}, <<[node |-> start, path |-> <<start>>]>>, {}, order)

BfsCycleDetect(rt, down, start, order) ==
  BfsLoop(rt, down, <<[node |-> start, path |-> <<start>>]>>, {}, order)

\* the return value of cycle_detect
CycleFound(rt, down, order) ==
  \E node \in DOMAIN rt \ down : BfsCycleDetect(rt, down, node, order)

\* every id of the graph, sorted: the iteration order used for the dicts
AllNodes(rt) == DOMAIN rt \cup UNION {DOMAIN rt[k] : k \in DOMAIN rt}

CycleDetect(m) ==
  IF CycleFound(m.rt, m.down, Sorted(AllNodes(m.rt)))
  THEN Info(m, Msg("Cycle detected.", <<>>))
  ELSE Info(m, Msg("No cycle found.", <<>>))

\* a reset that forgets down_nodes.clear()
ResetKeepsDown(m) == [m EXCEPT !.rt = (MyId :> m.initial)]

Reset(m) == [m EXCEPT !.rt = (MyId :> m.initial), !.down = {}]

\* the rest of a handler, skipped when an exception is under way
BroadcastIfReturned(m) == IF m.exc # "none" THEN m ELSE Broadcast(m)

Change(m, node_id, newcost) ==
  IF node_id \in DOMAIN Touch(m.rt, MyId)[MyId]
  THEN BroadcastIfReturned(RecalculateRoutes(
         [m EXCEPT !.rt = [Touch(m.rt, MyId) EXCEPT ![MyId][node_id].cost = newcost]]))
  ELSE [m EXCEPT !.rt = Touch(m.rt, MyId)]

Fail(m, node_id) ==
  IF node_id = MyId
  THEN Info([m EXCEPT !.enabled = FALSE, !.down = @ \cup {node_id}],
            Msg("is now DOWN.", <<MyId>>))
  ELSE [m EXCEPT !.down = @ \cup {node_id}]

RecoverSelf(m) ==
  IF MyId \in m.down
  THEN Info([m EXCEPT !.enabled = TRUE, !.down = @ \ {MyId}],
            Msg("is now UP.", <<MyId>>))
  ELSE [m EXCEPT !.enabled = TRUE, !.exc = "KeyError"]

\* a recover() that uses remove() for the other nodes too
RecoverRemoving(m, node_id) ==
  IF node_id = MyId THEN RecoverSelf(m)
  ELSE IF node_id \in m.down THEN [m EXCEPT !.down = @ \ {node_id}]
  ELSE [m EXCEPT !.exc = "KeyError"]

Recover(m, node_id) ==
  IF node_id = MyId THEN RecoverSelf(m)
  ELSE [m EXCEPT !.down = @ \ {node_id}]

\* the first loop of merge: node1's row after adopting node2's edges
MergeRow(row1, row2, node1) ==
  [d \in DOMAIN row1 \cup (DOMAIN row2 \ {node1}) |->
     IF d \in DOMAIN row2 \ {node1}
     THEN IF d \in DOMAIN row1
          THEN IF row2[d].cost < row1[d].cost THEN row2[d] ELSE row1[d]
          ELSE row2[d]
     ELSE row1[d]]

\* the second loop of merge, for one row
Redirect(routes, node1, node2) ==
  IF node2 \notin DOMAIN routes THEN routes
  ELSE IF node1 \in DOMAIN routes /\ ~(routes[node2].cost < routes[node1].cost)
       THEN Del(routes, node2)
       ELSE Del(Put(routes, node1, routes[node2]), node2)

Merge(m, node1, node2) ==
  IF node1 \notin DOMAIN m.rt \/ node2 \notin DOMAIN m.rt THEN m
  ELSE LET row1 == MergeRow(m.rt[node1], m.rt[node2], node1)
           rtA == [k \in DOMAIN m.rt \ {node2} |-> IF k = node1 THEN row1 ELSE m.rt[k]]
       IN  Info([m EXCEPT !.rt = [k \in DOMAIN rtA |-> Redirect(rtA[k], node1, node2)]],
                Msg("Graph merged successfully.", <<>>))

Split(m) ==
  LET nodes == Sorted(DOMAIN m.rt)
      mid == Len(nodes) \div 2
      group1 == {nodes[i] : i \in 1..mid}
      group2 == {nodes[i] : i \in (mid + 1)..Len(nodes)}
      Crosses(a, b) == (a \in group1 /\ b \in group2) \/ (a \in group2 /\ b \in group1)
  IN  Info([m EXCEPT !.rt = [k \in DOMAIN m.rt |->
                          [d \in {e \in DOMAIN m.rt[k] : ~Crosses(k, e)} |-> m.rt[k][d]]]],
           Msg("Graph partitioned successfully.", <<>>))

\* the loop of parse_update over route_configs: ok is FALSE where it calls sys.exit(3)
RECURSIVE ParseRoutes(_, _)
ParseRoutes(configs, routes) ==
  IF configs = <<>> THEN [ok |-> TRUE, routes |-> routes]
  ELSE LET parts == SplitOn(Head(configs), ":")
       IN  IF Len(parts) # 3 THEN [ok |-> FALSE, routes |-> routes]
           ELSE IF ~ParseFloat(parts[2]).ok THEN [ok |-> FALSE, routes |-> routes]
           ELSE IF ~ParseInt(parts[3]).ok THEN [ok |-> FALSE, routes |-> routes]
           ELSE ParseRoutes(Tail(configs),
                            Put(routes, parts[1],
                                [cost |-> ParseFloat(parts[2]).val,
                                 port |-> ParseInt(parts[3]).val]))

ParseUpdate(args) ==
  IF Len(args) # 2 THEN [ok |-> FALSE, node_id |-> <<>>, routes |-> EmptyDict]
  ELSE LET r == ParseRoutes(SplitOn(args[2], ","), EmptyDict)
       IN  [ok |-> r.ok, node_id |-> args[1], routes |-> r.routes]

\* new_update started as f"UPDATE {node_id}", without the space
NewUpdateNoSpace(node_id, new_routes) ==
  LET strs == RouteStrs(new_routes)
      body == kUPDATE \o <<" ">> \o node_id
              \o Join([i \in 1..Len(strs) |-> strs[i] \o <<",">>], <<>>)
  IN  SubSeq(body, 1, Len(body) - 1)

\* new_update of update(): every route followed by a comma, the last character cut
NewUpdate(node_id, new_routes) ==
  LET strs == RouteStrs(new_routes)
      body == kUPDATE \o <<" ">> \o node_id \o <<" ">>
              \o Join([i \in 1..Len(strs) |-> strs[i] \o <<",">>], <<>>)
  IN  SubSeq(body, 1, Len(body) - 1)

\* update() once parse_update has returned p or has called sys.exit(3)
\* an update() that adds the received routes to the row it has
StoreUpdateMerging(m, p) ==
  IF ~p.ok
  THEN [m EXCEPT !.out = Append(@, Msg("Error: Invalid update packet format.", <<>>)),
                 !.exc = "SystemExit(3)"]
  ELSE IF p.node_id \in DOMAIN m.rt
       THEN [m EXCEPT !.rt[p.node_id] = p.routes @@ @]
       ELSE [m EXCEPT !.rt = Put(m.rt, p.node_id, p.routes)]

\* an update() that stores the routes read before the malformed entry
StoreUpdateKeepingParsed(m, p) ==
  IF ~p.ok
  THEN [m EXCEPT !.rt = Put(m.rt, p.node_id, p.routes),
                 !.out = Append(@, Msg("Error: Invalid update packet format.", <<>>)),
                 !.exc = "SystemExit(3)"]
  ELSE IF p.node_id \in DOMAIN m.rt
          /\ GenerateUpdate(m.rt, p.node_id) = NewUpdate(p.node_id, p.routes)
       THEN m
       ELSE [m EXCEPT !.rt = Put(m.rt, p.node_id, p.routes)]

StoreUpdate(m, p) ==
  IF ~p.ok
  THEN [m EXCEPT !.out = Append(@, Msg("Error: Invalid update packet format.", <<>>)),
                 !.exc = "SystemExit(3)"]
  ELSE IF p.node_id \in DOMAIN m.rt
          /\ GenerateUpdate(m.rt, p.node_id) = NewUpdate(p.node_id, p.routes)
       THEN m
       ELSE [m EXCEPT !.rt = Put(m.rt, p.node_id, p.routes)]

Update(m, args) == StoreUpdate(m, ParseUpdate(args))

\* the files that BATCH UPDATE can name, each a sequence of lines; any other
\* name is a missing file
\*   F:  FAIL B / BOGUS / RECOVER B
\*   G:  UPDATE B A:8.0:6001,C:3.0:6003 / MERGE B A / CHANGE D 1.5
BatchFiles ==
  (<<"F">> :> << kFAIL \o <<" ", "B">>,
                <<"B", "O", "G", "U", "S">>,
                kRECOVER \o <<" ", "B">> >>)
  @@
  (<<"G">> :> << kUPDATE \o <<" ", "B", " ">>
                  \o <<"A", ":", "8", ".", "0", ":", "6", "0", "0", "1", ",",
                       "C", ":", "3", ".", "0", ":", "6", "0", "0", "3">>,
                kMERGE \o <<" ", "B", " ", "A">>,
                kCHANGE \o <<" ", "D", " ", "1", ".", "5">> >>)

\* run_command and batch_update call each other.  The command name QUERY_PATH
\* that parse_command produces matches no branch of run_command.
RECURSIVE RunCommand(_, _), BatchLines(_, _), BatchLine(_, _, _)

\* what a call of run_command can observe or change
Snapshot(m) ==
  [rt |-> m.rt, down |-> m.down, enabled |-> m.enabled, cached |-> m.cached,
   sent |-> m.sent, out |-> m.out, exc |-> m.exc]

\* the history entry of one call of run_command: m is the state it was
\* called on, r the state it left
Called(m, cmd, r) ==
  [r EXCEPT !.calls = Append(@, [cmd |-> cmd, pre |-> Snapshot(m), post |-> Snapshot(r)])]

\* one pass of the loop of batch_update, result being what parse_command gave
BatchLine(m, result, rest) ==
  IF result.status = "exit2" THEN [m EXCEPT !.exc = "SystemExit(2)"]
  ELSE IF result.status = "none" THEN BatchLines(m, rest)
  ELSE BatchLines(RunCommand(m, result), rest)

\* the loop of batch_update over the lines of the file
BatchLines(m, lines) ==
  IF lines = <<>> \/ m.exc # "none" THEN m
  ELSE BatchLine(m, ParseCommand(Strip(Head(lines))), Tail(lines))

\* the end of batch_update, reached when the loop has returned
BatchComplete(m) ==
  IF m.exc # "none" THEN m ELSE Info(m, Msg("Batch update complete.", <<>>))

BatchUpdate(m, filename) ==
  IF filename \notin DOMAIN BatchFiles THEN [m EXCEPT !.exc = "FileNotFoundError"]
  ELSE BatchComplete(BatchLines(m, BatchFiles[filename]))

RunCommand(m, cmd) == Called(m, cmd,
  IF cmd.command = "CHANGE" THEN Change(m, cmd.args[1], cmd.args[2])
  ELSE IF cmd.command = "FAIL" THEN Fail(m, cmd.args[1])
  ELSE IF cmd.command = "RECOVER" THEN Recover(m, cmd.args[1])
  ELSE IF cmd.command = "QUERY" THEN Query(m, cmd.args[1])
  ELSE IF cmd.command = "QUERYPATH" THEN QueryPath(m, cmd.args[1], cmd.args[2], FALSE)
  ELSE IF cmd.command = "MERGE" THEN Merge(m, cmd.args[1], cmd.args[2])
  ELSE IF cmd.command = "SPLIT" THEN Split(m)
  ELSE IF cmd.command = "RESET" THEN Reset(m)
  ELSE IF cmd.command = "CYCLE_DETECT" THEN CycleDetect(m)
  ELSE IF cmd.command = "BATCH_UPDATE" THEN BatchUpdate(m, cmd.args[1])
  ELSE IF cmd.command = "UPDATE" THEN Update(m, cmd.args)
  ELSE m)

(***************************************************************************)
(* Configurations and input lines.                                         *)
(***************************************************************************)
\* an entry of the table that parse_config_file builds
ConfigEdge(c, p) == [cost |-> c, port |-> p, down |-> FALSE]

CfgNone == EmptyDict
CfgB    == (<<"B">> :> ConfigEdge(40, 6002))
CfgBC   == (<<"B">> :> ConfigEdge(40, 6002)) @@ (<<"C">> :> ConfigEdge(10, 6003))

SP == <<" ">>
lChangeB  == kCHANGE \o SP \o <<"B">> \o SP \o <<"2", ".", "5">>
lFailA    == kFAIL \o SP \o <<"A">>
lFailB    == kFAIL \o SP \o <<"B">>
lRecoverA == kRECOVER \o SP \o <<"A">>
lRecoverB == kRECOVER \o SP \o <<"B">>
lReset    == kRESET
lSplit    == kSPLIT
lMergeAB  == kMERGE \o SP \o <<"A">> \o SP \o <<"B">>
lMergeBA  == kMERGE \o SP \o <<"B">> \o SP \o <<"A">>
lBogus    == <<"B", "O", "G", "U", "S">>
lChangeD  == kCHANGE \o SP \o <<"D">> \o SP \o <<"1", ".", "5">>
lFailC    == kFAIL \o SP \o <<"C">>
lQueryB   == kQUERY \o SP \o <<"B">>
lQueryC   == kQUERY \o SP \o <<"C">>
lCycle    == kCYCLE \o SP \o kDETECT
lMergeAD  == kMERGE \o SP \o <<"A">> \o SP \o <<"D">>
\* UPDATE B C:3.0:6003
lUpdateBC == kUPDATE \o SP \o <<"B">> \o SP
             \o <<"C", ":", "3", ".", "0", ":", "6", "0", "0", "3">>
\* UPDATE C A:1.0:6001
lUpdateCA == kUPDATE \o SP \o <<"C">> \o SP
             \o <<"A", ":", "1", ".", "0", ":", "6", "0", "0", "1">>
\* UPDATE C B:0.0:6002
lUpdateCB == kUPDATE \o SP \o <<"C">> \o SP
             \o <<"B", ":", "0", ".", "0", ":", "6", "0", "0", "2">>
\* UPDATE A B:1.0:6002,C:9.0:6003
lUpdateA2 == kUPDATE \o SP \o <<"A">> \o SP
             \o <<"B", ":", "1", ".", "0", ":", "6", "0", "0", "2", ",",
                  "C", ":", "9", ".", "0", ":", "6", "0", "0", "3">>
\* malformed payloads after a well-formed first entry:
\* UPDATE B C:3.0:6003,A:8.0        (two fields)
lBadFields == kUPDATE \o SP \o <<"B">> \o SP
              \o <<"C", ":", "3", ".", "0", ":", "6", "0", "0", "3", ",",
                   "A", ":", "8", ".", "0">>
\* UPDATE B C:3.0:6003,A:x:6001     (cost not a number)
lBadCost   == kUPDATE \o SP \o <<"B">> \o SP
              \o <<"C", ":", "3", ".", "0", ":", "6", "0", "0", "3", ",",
                   "A", ":", "x", ":", "6", "0", "0", "1">>
\* UPDATE B C:3.0:6003,A:8.0:6.5    (port not an integer)
lBadPort   == kUPDATE \o SP \o <<"B">> \o SP
              \o <<"C", ":", "3", ".", "0", ":", "6", "0", "0", "3", ",",
                   "A", ":", "8", ".", "0", ":", "6", ".", "5">>
lQueryPathAC == kQUERY \o SP \o kPATH \o SP \o <<"A">> \o SP \o <<"C">>
lQueryPathCB == kQUERY \o SP \o kPATH \o SP \o <<"C">> \o SP \o <<"B">>
lQueryPathAD == kQUERY \o SP \o kPATH \o SP \o <<"A">> \o SP \o <<"D">>
lBatchF   == kBATCH \o SP \o kUPDATE \o SP \o <<"F">>
lBatchG   == kBATCH \o SP \o kUPDATE \o SP \o <<"G">>
lFailBad  == kFAIL \o SP \o <<"x">>
\* UPDATE B A:8.0:6001,C:3.0:6003
lUpdateB  == kUPDATE \o SP \o <<"B">> \o SP
             \o <<"A", ":", "8", ".", "0", ":", "6", "0", "0", "1", ",",
                  "C", ":", "3", ".", "0", ":", "6", "0", "0", "3">>
\* the same routes in another order and spelling: UPDATE B C:3:6003,A:8:6001
lUpdateB2 == kUPDATE \o SP \o <<"B">> \o SP
             \o <<"C", ":", "3", ":", "6", "0", "0", "3", ",",
                  "A", ":", "8", ":", "6", "0", "0", "1">>
\* the routes of CfgBC, sent with A as the source: UPDATE A C:1:6003,B:4:6002
lUpdateA  == kUPDATE \o SP \o <<"A">> \o SP
             \o <<"C", ":", "1", ":", "6", "0", "0", "3", ",",
                  "B", ":", "4", ":", "6", "0", "0", "2">>
\* lines with a signed cost: CHANGE B -1.5 and UPDATE B A:-5.0:6001
lChangeNeg == kCHANGE \o SP \o <<"B">> \o SP \o <<"-", "1", ".", "5">>
lUpdateNeg == kUPDATE \o SP \o <<"B">> \o SP
              \o <<"A", ":", "-", "5", ".", "0", ":", "6", "0", "0", "1">>

(***************************************************************************)
(* NetworkNode (src/node.py): the listener, the sender and the executor.   *)
(***************************************************************************)
VARIABLES
  routing_tables,   \* dv_model.routing_tables
  down_nodes,       \* dv_model.down_nodes
  enabled,          \* dv_model.enabled
  initial_table,    \* dv_model.initial_table
  cached,           \* the broadcast cache
  running,          \* the running flag
  input_queue,      \* NetworkNode.input_queue
  command_queue,    \* NetworkNode.command_queue, entries tagged with the line's arrival number
  inbox,            \* lines waiting on stdin or the socket, not yet read
  listen_pc,        \* listening_loop: "check", "select", "exited", "dead"
  send_pc,          \* sending_loop: "loop", "exited"
  calc_pc,          \* calc_loop: "delay", "loop", "get", "exited", "dead", "hung"
  sent,             \* the datagrams sent by the last step
  palette,          \* the lines the environment may send
  arrived,          \* number of lines that have arrived
  accepted,         \* history: arrival numbers of the lines parse_command accepted, in reading order
  executed,         \* history: the commands the executor ran, in order, each with the
                    \*   graph and down set that run_command was called on, the
                    \*   messages that run_command printed and the calls it made
  lastParse,        \* history: what the listener did with the last line it read
  model_lock,       \* NetworkNode.model_lock: "free" or the task holding it
  cache_lock        \* NetworkNode.cache_lock: "free" or the task holding it

vars == << routing_tables, down_nodes, enabled, initial_table, cached, running,
           input_queue, command_queue, inbox, listen_pc, send_pc, calc_pc, sent,
           palette, arrived, accepted, executed, lastParse, model_lock, cache_lock >>

lockVars == << model_lock, cache_lock >>
modelVars == << routing_tables, down_nodes, enabled, cached >>
histVars == << accepted, executed, lastParse >>

\* the state after NetworkNode.__init__ and start()
InitWith(pal, cfgs) ==
  /\ initial_table \in cfgs
  /\ routing_tables = (MyId :> initial_table)
  /\ down_nodes = {}
  /\ enabled = TRUE
  /\ cached = NoCache
  /\ running = TRUE
  /\ input_queue = <<>>
  /\ command_queue = <<>>
  /\ inbox = <<>>
  /\ listen_pc = "check"
  /\ send_pc = "loop"
  /\ calc_pc = "delay"
  /\ sent = {}
  /\ palette = pal
  /\ arrived = 0
  /\ accepted = <<>>
  /\ executed = <<>>
  /\ lastParse = "none"
  /\ model_lock = "free"
  /\ cache_lock = "free"

\* the DVModel as the executor finds it
ModelState ==
  [rt |-> routing_tables, down |-> down_nodes, enabled |-> enabled,
   initial |-> initial_table, cached |-> cached, sent |-> {}, out |-> <<>>,
   exc |-> "none", calls |-> <<>>]

SetModel(m) ==
  /\ routing_tables' = m.rt
  /\ down_nodes' = m.down
  /\ enabled' = m.enabled
  /\ cached' = m.cached
  /\ sent' = m.sent

\* the environment: a line arrives on stdin or as a datagram
Arrive ==
  /\ arrived < MaxLines
  /\ \E line \in palette :
       inbox' = Append(inbox, [id |-> arrived + 1, text |-> line])
  /\ arrived' = arrived + 1
  /\ sent' = {}
  /\ UNCHANGED << lockVars, modelVars, initial_table, running, input_queue, command_queue,
                  listen_pc, send_pc, calc_pc, palette, histVars >>

\* stop(): clears the flag and puts "" on input_queue; the joins are the
\* waiting for the three pcs to reach "exited"
Stop ==
  /\ running
  /\ running' = FALSE
  /\ input_queue' = Append(input_queue, <<>>)
  /\ sent' = {}
  /\ UNCHANGED << lockVars, modelVars, initial_table, command_queue, inbox, listen_pc,
                  send_pc, calc_pc, palette, arrived, histVars >>

\* listening_loop: the test of "while self.running"
ListenCheckReady == listen_pc = "check"

ListenCheck ==
  /\ ListenCheckReady
  /\ listen_pc' = IF running THEN "select" ELSE "exited"
  /\ sent' = {}
  /\ UNCHANGED << lockVars, modelVars, initial_table, running, input_queue, command_queue,
                  inbox, send_pc, calc_pc, palette, arrived, histVars >>

\* the queue after command_queue.put
QueuePut(q, e) == Append(q, e)

\* listening_loop: readline() returns when select() reports a readable source;
\* select() has no timeout and does not watch input_queue
ListenReadReady == listen_pc = "select" /\ inbox # <<>>

ListenRead ==
  /\ ListenReadReady
  /\ LET e == Head(inbox)
         line == Strip(e.text)
         result == ParseCommand(line)
     IN  /\ inbox' = Tail(inbox)
         /\ IF line = <<>>
            THEN /\ listen_pc' = "check"
                 /\ lastParse' = "empty"
                 /\ UNCHANGED << command_queue, accepted >>
            ELSE IF result.status = "exit2"
            THEN \* exit(2) raises SystemExit, which "except Exception" does not catch
                 /\ listen_pc' = "dead"
                 /\ lastParse' = "rejected"
                 /\ UNCHANGED << command_queue, accepted >>
            ELSE /\ listen_pc' = "check"
                 /\ lastParse' = "accepted"
                 /\ command_queue' = QueuePut(command_queue, [id |-> e.id, cmd |-> result])
                 /\ accepted' = Append(accepted, e.id)
  /\ sent' = {}
  /\ UNCHANGED << lockVars, modelVars, initial_table, running, input_queue, send_pc, calc_pc,
                  palette, arrived, executed >>

\* the datagrams of one pass of sending_loop
Resend(c) == IF c.set THEN Datagrams(c.m, c.message, "sender") ELSE {}

\* sending_loop: one pass, or the exit when the flag is cleared
SendTickReady == send_pc = "loop"

SendTick ==
  /\ SendTickReady
  /\ IF running
     THEN /\ sent' = Resend(cached)
          /\ UNCHANGED send_pc
     ELSE /\ sent' = {}
          /\ send_pc' = "exited"
  /\ UNCHANGED << lockVars, modelVars, initial_table, running, input_queue, command_queue,
                  inbox, listen_pc, calc_pc, palette, arrived, histVars >>

\* calc_loop before its loop: the delay, the first table and the first broadcast
CalcStartReady == calc_pc = "delay"

PrintIfReturned(m) ==
  IF m.exc # "none" THEN m ELSE BroadcastIfReturned(PrintRoutingTable(m))

\* what calc_loop does before its loop
StartBody(m) == PrintIfReturned(RecalculateRoutes(m))

\* the pc of calc_loop after a handler that left the model in state m
AfterHandler(m) ==
  IF m.exc = "none" THEN "loop" ELSE IF m.exc = "hang" THEN "hung" ELSE "dead"

CalcStartWith(m) ==
  /\ SetModel(m)
  /\ calc_pc' = AfterHandler(m)

CalcStart ==
  /\ CalcStartReady
  /\ CalcStartWith(StartBody(ModelState))
  /\ UNCHANGED << lockVars, initial_table, running, input_queue, command_queue, inbox,
                  listen_pc, send_pc, palette, arrived, histVars >>

\* calc_loop: the test of "while self.running"
CalcCheckReady == calc_pc = "loop"

CalcCheck ==
  /\ CalcCheckReady
  /\ calc_pc' = IF running THEN "get" ELSE "exited"
  /\ sent' = {}
  /\ UNCHANGED << lockVars, modelVars, initial_table, running, input_queue, command_queue,
                  inbox, listen_pc, send_pc, palette, arrived, histVars >>

\* calc_loop: command_queue.get times out
CalcTimeoutReady == calc_pc = "get" /\ command_queue = <<>>

CalcTimeout ==
  /\ CalcTimeoutReady
  /\ calc_pc' = "loop"
  /\ sent' = {}
  /\ UNCHANGED << lockVars, modelVars, initial_table, running, input_queue, command_queue,
                  inbox, listen_pc, send_pc, palette, arrived, histVars >>

\* a queue that hands out its newest entry first
QueueNextNewest(q) == q[Len(q)]

\* the entry that command_queue.get returns
QueueNext(q) == Head(q)

\* the queue after command_queue.get
QueueRest(q) == Tail(q)

\* the body of calc_loop for one command, under model_lock
RecalculateIfReturned(m) == IF m.exc # "none" THEN m ELSE RecalculateRoutes(m)

RunIfReturned(m, command) ==
  IF m.exc # "none" THEN m ELSE RecalculateIfReturned(RunCommand(m, command))

ExecBody(m, command) == RunIfReturned(PrintRoutingTable(m), command)

\* a calc_loop that takes commands during the initial delay
CalcExecReadyInDelay == calc_pc \in {"get", "delay"} /\ command_queue # <<>>

\* calc_loop: one command is taken from the queue and executed; an exception
\* other than Empty ends the thread
CalcExecReady == calc_pc = "get" /\ command_queue # <<>>

\* the history entry of an executed command: m0 is the state run_command
\* was called on, m1 the state the body left
Executed(e, m0, m1) ==
  [id |-> e.id, cmd |-> e.cmd, exc |-> m1.exc, pre |-> m0.rt, down |-> m0.down,
   out |-> SubSeq(m1.out, Len(m0.out) + 1, Len(m1.out)), calls |-> m1.calls]

CalcExecWith(e, m0, m1) ==
  /\ command_queue' = QueueRest(command_queue)
  /\ SetModel(m1)
  /\ calc_pc' = AfterHandler(m1)
  /\ executed' = Append(executed, Executed(e, m0, m1))

CalcExec ==
  /\ CalcExecReady
  /\ CalcExecWith(QueueNext(command_queue), PrintRoutingTable(ModelState),
                  ExecBody(ModelState, QueueNext(command_queue).cmd))
  /\ UNCHANGED << lockVars, initial_table, running, input_queue, inbox, listen_pc, send_pc,
                  palette, arrived, accepted, lastParse >>

Next ==
  \/ Arrive
  \/ Stop
  \/ ListenCheck
  \/ ListenRead
  \/ SendTick
  \/ CalcStart
  \/ CalcCheck
  \/ CalcTimeout
  \/ CalcExec

(***************************************************************************)
(* Specifications.  They differ in the lines the environment may send and  *)
(* in the configured neighbour table.                                      *)
(***************************************************************************)
PaletteCore  == {lChangeB, lFailA, lRecoverA, lReset, lBogus}
PaletteReset == {lChangeB, lFailA, lRecoverA, lUpdateB, lMergeBA, lSplit, lReset}
PaletteGraph == {lUpdateB, lUpdateB2, lUpdateA, lMergeAB, lMergeBA, lSplit}

PaletteChange == {lChangeB, lChangeD, lQueryB, lFailA, lFailC, lMergeAD, lBatchG}
PalettePath   == {lUpdateBC, lUpdateCA, lUpdateCB, lUpdateA2, lFailB, lQueryC, lCycle}
PaletteUpdate == {lUpdateB, lBadFields, lBadCost, lBadPort, lFailB, lChangeB, lBatchF}
PaletteQuery == {lQueryPathAC, lQueryPathCB, lQueryPathAD, lFailC, lQueryC, lChangeB}
PaletteFail == {lFailB, lRecoverB, lFailC, lUpdateB, lChangeB}
PaletteCost == {lChangeNeg, lUpdateNeg, lChangeB, lQueryB}

Init == InitWith(PaletteCore, {CfgB})
Spec == Init /\ [][Next]_vars

InitReset == InitWith(PaletteReset, {CfgB})
SpecReset == InitReset /\ [][Next]_vars

InitGraph == InitWith(PaletteGraph, {CfgBC})
SpecGraph == InitGraph /\ [][Next]_vars

InitChange == InitWith(PaletteChange, {CfgBC})
SpecChange == InitChange /\ [][Next]_vars

InitPath == InitWith(PalettePath, {CfgB})
SpecPath == InitPath /\ [][Next]_vars

InitUpdate == InitWith(PaletteUpdate, {CfgBC})
SpecUpdate == InitUpdate /\ [][Next]_vars

InitFail == InitWith(PaletteFail, {CfgBC})
SpecFail == InitFail /\ [][Next]_vars

InitQuery == InitWith(PaletteQuery, {CfgBC})
SpecQuery == InitQuery /\ [][Next]_vars

InitCost == InitWith(PaletteCost, {CfgB})
SpecCost == InitCost /\ [][Next]_vars

(***************************************************************************)
(* parse_command on its own: the line is drawn from InputLines and parsed  *)
(* once; lastParse then holds the line and what parse_command gave for it. *)
(***************************************************************************)
\* first tokens: the command words, and words that are no command
FirstTokens ==
  {kUPDATE, kCHANGE, kFAIL, kRECOVER, kQUERY, kMERGE, kSPLIT, kRESET, kCYCLE,
   kBATCH, kPATH, kDETECT, <<"A">>, <<"x">>, <<"1", ".", "5">>}

\* later tokens: a node id, a lower-case letter, a number, sub-command words
ArgTokens == {<<"A">>, <<"x">>, <<"1", ".", "5">>, kPATH, kDETECT, kUPDATE}

RECURSIVE ArgSeqs(_)
ArgSeqs(k) ==
  IF k = 0 THEN {<<>>} ELSE {<<a>> \o s : a \in ArgTokens, s \in ArgSeqs(k - 1)}

TokenLists ==
  {<<>>} \cup {<<f>> \o s : f \in FirstTokens,
                            s \in UNION {ArgSeqs(k) : k \in 0..(MaxTokens - 1)}}

\* the tokens separated by one or two blanks, with or without blanks around
InputLines ==
  {pad \o Join(toks, sep) \o pad :
     toks \in TokenLists, sep \in {<<" ">>, <<" ", " ">>}, pad \in {<<>>, <<" ">>}}

InitParse ==
  /\ initial_table = CfgB
  /\ routing_tables = (MyId :> initial_table)
  /\ down_nodes = {}
  /\ enabled = TRUE
  /\ cached = NoCache
  /\ running = TRUE
  /\ input_queue = <<>>
  /\ command_queue = <<>>
  /\ inbox \in {<<[id |-> 1, text |-> line]>> : line \in InputLines}
  /\ listen_pc = "check"
  /\ send_pc = "loop"
  /\ calc_pc = "delay"
  /\ sent = {}
  /\ palette = {}
  /\ arrived = 1
  /\ accepted = <<>>
  /\ executed = <<>>
  /\ lastParse = [line |-> <<>>, result |-> NoCmd]
  /\ model_lock = "free"
  /\ cache_lock = "free"

\* parse_command(line)
ParseLine ==
  /\ inbox # <<>>
  /\ lastParse' = [line |-> Head(inbox).text, result |-> ParseCommand(Head(inbox).text)]
  /\ inbox' = Tail(inbox)
  /\ UNCHANGED << lockVars, modelVars, initial_table, running, input_queue, command_queue,
                  listen_pc, send_pc, calc_pc, sent, palette, arrived, accepted, executed >>

NextParse == ParseLine

SpecParse == InitParse /\ [][NextParse]_vars

(***************************************************************************)
(* DVModel on its own: the graph is drawn from Graphs, as left by earlier  *)
(* UPDATEs, and up to MaxCalls methods are called on it; executed holds    *)
(* the calls.                                                              *)
(***************************************************************************)
NodeIds == {<<"A">>, <<"B">>, <<"C">>, <<"D">>}

PortOf(n) == 6000 + Ord(n[1]) - Ord("A") + 1

\* a row with the edges whose cost is not 0; the local row is the config's
\* (parse_config_file), the others come from parse_update
MkRow(costs, local) ==
  [d \in {x \in DOMAIN costs : costs[x] # 0} |->
     IF local THEN ConfigEdge(costs[d], PortOf(d))
     ELSE [cost |-> costs[d], port |-> PortOf(d)]]

\* the graph with the given costs (0: no edge), without the rows that have no edge
GraphOf(ab, ac, bc, bd, cd, da) ==
  LET rows == (<<"A">> :> MkRow((<<"B">> :> ab) @@ (<<"C">> :> ac), TRUE))
              @@ (<<"B">> :> MkRow((<<"C">> :> bc) @@ (<<"D">> :> bd), FALSE))
              @@ (<<"C">> :> MkRow((<<"D">> :> cd), FALSE))
              @@ (<<"D">> :> MkRow((<<"A">> :> da), FALSE))
  IN  [k \in {x \in DOMAIN rows : x = MyId \/ DOMAIN rows[x] # {}} |-> rows[k]]

Graphs ==
  {GraphOf(ab, ac, bc, bd, cd, da) :
     ab \in {10, 20}, ac \in {0, 10, 20}, bc \in {0, 10, 20},
     bd \in {0, 10, 20}, cd \in {0, 10, 20}, da \in {0, 10}}

InitModel ==
  /\ routing_tables \in Graphs
  /\ initial_table = routing_tables[MyId]
  /\ down_nodes = {}
  /\ enabled = TRUE
  /\ cached = NoCache
  /\ running = TRUE
  /\ input_queue = <<>>
  /\ command_queue = <<>>
  /\ inbox = <<>>
  /\ listen_pc = "check"
  /\ send_pc = "loop"
  /\ calc_pc = "delay"
  /\ sent = {}
  /\ palette = {}
  /\ arrived = 0
  /\ accepted = <<>>
  /\ executed = <<>>
  /\ lastParse = "none"
  /\ model_lock = "free"
  /\ cache_lock = "free"

\* one method call: m1 is the state that the method leaves
Call(method, args, m1) ==
  /\ Len(executed) < MaxCalls
  /\ SetModel(m1)
  /\ executed' = Append(executed,
                    Executed([id |-> Len(executed) + 1, cmd |-> Cmd(method, args)],
                             ModelState, m1))
  /\ UNCHANGED << lockVars, initial_table, running, input_queue, command_queue, inbox,
                  listen_pc, send_pc, calc_pc, palette, arrived, accepted, lastParse >>

CallQueryPath ==
  \E s \in NodeIds, d \in NodeIds :
    Call("query_path", <<s, d>>, QueryPath(ModelState, s, d, FALSE))

CallFail == \E v \in NodeIds : Call("fail", <<v>>, Fail(ModelState, v))

CallMerge ==
  \E node1 \in NodeIds, node2 \in NodeIds :
    Call("merge", <<node1, node2>>, Merge(ModelState, node1, node2))

NextModel ==
  \/ CallQueryPath
  \/ CallFail
  \/ CallMerge

SpecModel == InitModel /\ [][NextModel]_vars

(***************************************************************************)
(* The locks.  The with-blocks of calc_loop, on_broadcast and sending_loop *)
(* are taken apart: a task asks for a lock, holds it and gives it back in  *)
(* separate steps.  The graph is read and written by the calc task only,   *)
(* so the writes of a command are placed at the step that ends its block.  *)
(***************************************************************************)
PaletteLock == {lChangeB, lFailA, lUpdateB}

InitLock == InitWith(PaletteLock, {CfgB})

\* a lock that nobody ever holds
HeldByNone(who) == "free"

\* threading.Lock.acquire by the task who
Held(who) == who

\* a lock that stays with its holder
ReleaseKept(lock) == lock

\* threading.Lock.release
Release(lock) == "free"

\* the body prints the update it broadcasts: on_broadcast was called
WritesCache(m) == \E i \in 1..Len(m.out) : m.out[i].kind = "broadcast"

\* sending_loop: the test of "while self.running"
SendCheckReady == send_pc = "loop"

SendCheck ==
  /\ SendCheckReady
  /\ send_pc' = IF running THEN "want" ELSE "exited"
  /\ sent' = {}
  /\ UNCHANGED << lockVars, modelVars, initial_table, running, input_queue,
                  command_queue, inbox, listen_pc, calc_pc, palette, arrived, histVars >>

\* sending_loop: "with self.cache_lock" is entered
SendLockReady == send_pc = "want" /\ cache_lock = "free"

SendLock ==
  /\ SendLockReady
  /\ cache_lock' = Held("send")
  /\ send_pc' = "locked"
  /\ sent' = {}
  /\ UNCHANGED << model_lock, modelVars, initial_table, running, input_queue,
                  command_queue, inbox, listen_pc, calc_pc, palette, arrived, histVars >>

\* sending_loop: the cached update is sent, the block is left, the sleep
SendLockedReady == send_pc = "locked"

SendLocked ==
  /\ SendLockedReady
  /\ sent' = Resend(cached)
  /\ cache_lock' = Release(cache_lock)
  /\ send_pc' = "loop"
  /\ UNCHANGED << model_lock, modelVars, initial_table, running, input_queue,
                  command_queue, inbox, listen_pc, calc_pc, palette, arrived, histVars >>

\* calc_loop before its loop, after the delay: on_broadcast enters
\* "with self.cache_lock"; model_lock is not taken
StartLockReady == calc_pc = "delay" /\ cache_lock = "free"

StartLock ==
  /\ StartLockReady
  /\ cache_lock' = Held("calc")
  /\ calc_pc' = "starting"
  /\ sent' = {}
  /\ UNCHANGED << model_lock, modelVars, initial_table, running, input_queue,
                  command_queue, inbox, listen_pc, send_pc, palette, arrived, histVars >>

\* calc_loop before its loop: the first table, the first broadcast, the block is left
StartLockedReady == calc_pc = "starting"

StartLocked ==
  /\ StartLockedReady
  /\ CalcStartWith(StartBody(ModelState))
  /\ cache_lock' = Release(cache_lock)
  /\ UNCHANGED << model_lock, initial_table, running, input_queue, command_queue,
                  inbox, listen_pc, send_pc, palette, arrived, histVars >>

\* calc_loop: a command is there and "with self.model_lock" is entered
LockModelReady == CalcExecReady /\ model_lock = "free"

LockModel ==
  /\ LockModelReady
  /\ model_lock' = Held("calc")
  /\ calc_pc' = "locked"
  /\ sent' = {}
  /\ UNCHANGED << cache_lock, modelVars, initial_table, running, input_queue,
                  command_queue, inbox, listen_pc, send_pc, palette, arrived, histVars >>

\* the command that the calc task is executing broadcasts
WantsCache == calc_pc = "locked" /\ WritesCache(ExecBody(ModelState, QueueNext(command_queue).cmd))

\* on_broadcast, called by the command: "with self.cache_lock" is entered
LockCacheReady == WantsCache /\ cache_lock = "free"

LockCache ==
  /\ LockCacheReady
  /\ cache_lock' = Held("calc")
  /\ calc_pc' = "caching"
  /\ sent' = {}
  /\ UNCHANGED << model_lock, modelVars, initial_table, running, input_queue,
                  command_queue, inbox, listen_pc, send_pc, palette, arrived, histVars >>

\* the body of the command ends: its writes, and the blocks are left (an
\* exception leaves them too)
ExecLockedReady == calc_pc = "caching" \/ (calc_pc = "locked" /\ ~WantsCache)

ExecLocked ==
  /\ ExecLockedReady
  /\ CalcExecWith(QueueNext(command_queue), PrintRoutingTable(ModelState),
                  ExecBody(ModelState, QueueNext(command_queue).cmd))
  /\ model_lock' = Release(model_lock)
  /\ cache_lock' = IF calc_pc = "caching" THEN Release(cache_lock) ELSE cache_lock
  /\ UNCHANGED << initial_table, running, input_queue, inbox, listen_pc, send_pc,
                  palette, arrived, accepted, lastParse >>

NextLock ==
  \/ Arrive
  \/ Stop
  \/ ListenCheck
  \/ ListenRead
  \/ SendCheck
  \/ SendLock
  \/ SendLocked
  \/ StartLock
  \/ StartLocked
  \/ CalcCheck
  \/ CalcTimeout
  \/ LockModel
  \/ LockCache
  \/ ExecLocked

SpecLock == InitLock /\ [][NextLock]_vars

\* a step of the sender task
SendStep == SendCheck \/ SendLock \/ SendLocked

\* the scheduling of the threads: a task that can take its next step takes
\* it, and the calc task blocked in acquire gets cache_lock when it is free
\* again and again, since the sender leaves its block and then sleeps
\* (update_interval).  For the steps that run a command the fairness is
\* written with their guards: only the step itself ends its guard.
LockFairness ==
  /\ WF_vars(SendStep)
  /\ WF_vars(LockModel)
  /\ SF_vars(StartLock)
  /\ []<>~StartLockedReady
  /\ []<>~ExecLockedReady
  /\ ([]<>LockCacheReady => []<>(calc_pc = "caching"))

SpecLockFair == SpecLock /\ LockFairness

(***************************************************************************)
(* Properties.                                                             *)
(***************************************************************************)
\* the executor takes a command from the queue in this step
ExecStep == CalcExecReady /\ executed' # executed

\* the command the executor takes in an ExecStep
Taken == Head(command_queue).cmd

LastExec == executed[Len(executed)]

\* a row as the mapping destination -> (cost, port)
CostPort(row) == [d \in DOMAIN row |-> [cost |-> row[d].cost, port |-> row[d].port]]

\* C1: commands are executed in arrival order: the lines the parser accepted,
\* in reading order, are exactly the executed commands followed by the queued
\* ones; nothing is reordered, duplicated or skipped.
C1_ArrivalOrder ==
  /\ [i \in 1..Len(executed) |-> executed[i].id]
       \o [i \in 1..Len(command_queue) |-> command_queue[i].id] = accepted
  /\ \A i, j \in 1..Len(accepted) : i < j => accepted[i] < accepted[j]

C1_Witness == Len(executed) >= 2 /\ command_queue # <<>>

\* C2: after the listener read a line that the parser rejects, the listener
\* task is still running its loop.
C2_ListenerSurvivesReject == lastParse = "rejected" => listen_pc # "dead"

\* C3: while the local node is failed (from FAIL self to RECOVER self), no
\* step sends a datagram to a neighbour.
C3_NoSendWhileFailed == [][(~enabled /\ ~enabled') => sent' = {}]_vars

Terminated ==
  /\ listen_pc \in {"exited", "dead"}
  /\ send_pc = "exited"
  /\ calc_pc \in {"exited", "dead"}

\* one of the three tasks can take a step (the guards of their actions)
TaskReady ==
  \/ ListenCheckReady \/ ListenReadReady
  \/ SendTickReady
  \/ CalcStartReady \/ CalcCheckReady \/ CalcTimeoutReady \/ CalcExecReady

\* C4: after stop() cleared the running flag, the three tasks go on until
\* they have ended, without further input: while one of them has not ended,
\* some task can take a step.
C4_StopTerminates == (~running) => (Terminated \/ TaskReady)

\* C5: RECOVER self while the local node is not in down_nodes raises nothing
\* and changes neither the graph, nor down_nodes, nor the enabled flag; the
\* executor goes on.
C5_RecoverNotDownNoOp ==
  [][(ExecStep /\ Taken.command = "RECOVER" /\ Taken.args[1] = MyId
        /\ MyId \notin down_nodes)
     => /\ routing_tables' = routing_tables
        /\ down_nodes' = down_nodes
        /\ enabled' = enabled
        /\ calc_pc' = "loop"]_vars

EdgeRestored(rt, a, b, edge) ==
  /\ a \in DOMAIN rt
  /\ b \in DOMAIN rt[a]
  /\ rt[a][b].cost = edge.cost

\* C6: after RECOVER self while the local node is down, every configured
\* neighbour n has its configured cost and port in the local row, and n's row
\* has an edge to the local node with that cost.
C6_RecoverRestoresEdges ==
  [][(ExecStep /\ Taken.command = "RECOVER" /\ Taken.args[1] = MyId
        /\ MyId \in down_nodes)
     => \A n \in DOMAIN initial_table :
          /\ EdgeRestored(routing_tables', MyId, n, initial_table[n])
          /\ routing_tables'[MyId][n].port = initial_table[n].port
          /\ EdgeRestored(routing_tables', n, MyId, initial_table[n])]_vars

\* C7: after RESET the graph is the local row alone, equal to the configured
\* table, and down_nodes is empty.
C7_ResetRestores ==
  (executed # <<>> /\ LastExec.cmd.command = "RESET")
    => /\ routing_tables = (MyId :> initial_table)
       /\ down_nodes = {}

C7_Witness ==
  /\ Len(executed) = 3
  /\ executed[3].cmd.command = "RESET"
  /\ executed[3].down # {}
  /\ executed[3].pre # (MyId :> initial_table)

\* C8: an UPDATE from S whose routes are those of S's row, in any order and
\* spelling, is discarded: the graph stays the one update() was called on
\* (the executor has printed the table before), the cache is untouched,
\* nothing is sent and the executor goes on.
SameRoutes(rt, args) ==
  LET p == ParseUpdate(args)
  IN  /\ p.ok
      /\ p.node_id \in DOMAIN rt
      /\ CostPort(rt[p.node_id]) = p.routes

C8_UpdateIdempotent ==
  [][(ExecStep /\ Taken.command = "UPDATE" /\ SameRoutes(routing_tables, Taken.args))
     => /\ routing_tables' = Touch(routing_tables, MyId)
        /\ cached' = cached
        /\ sent' = {}
        /\ calc_pc' = "loop"]_vars

C8_Witness ==
  /\ executed # <<>>
  /\ LastExec.cmd.command = "UPDATE"
  /\ LastExec.cmd.args[1] = MyId
  /\ SameRoutes(LastExec.pre, LastExec.cmd.args)
  /\ LastExec.cmd.args[2] # Join(RouteStrs(LastExec.pre[MyId]), <<",">>)

\* C9: for every row of the graph, the message of generate_update is accepted
\* by parse_command and parse_update and yields the same source and the same
\* mapping destination -> (cost, port).
RoundTrip(rt, id) ==
  LET r == ParseCommand(GenerateUpdate(rt, id))
      p == ParseUpdate(r.args)
  IN  /\ r.status = "ok"
      /\ r.command = "UPDATE"
      /\ p.ok
      /\ p.node_id = id
      /\ p.routes = CostPort(rt[id])

C9_RoundTrip == \A id \in DOMAIN routing_tables : RoundTrip(routing_tables, id)

Absent(rt, b) == b \notin DOMAIN rt /\ \A k \in DOMAIN rt : b \notin DOMAIN rt[k]

MergeApplied(e) ==
  /\ e.cmd.command = "MERGE"
  /\ e.cmd.args[1] \in DOMAIN e.pre
  /\ e.cmd.args[2] \in DOMAIN e.pre

\* C10: after MERGE A B with both rows present, B has no row and no row has
\* an edge to B, and this still holds after a SPLIT that follows.
C10_MergedNodeStaysAbsent ==
  \A i \in 1..Len(executed) :
     (/\ MergeApplied(executed[i])
      /\ \/ i = Len(executed)
         \/ i = Len(executed) - 1 /\ LastExec.cmd.command = "SPLIT")
     => Absent(routing_tables, executed[i].cmd.args[2])

\* the local row as change() finds it
LocalRow(rt) == Touch(rt, MyId)[MyId]

\* the executor takes CHANGE n c with n in the local row
ChangeStep ==
  ExecStep /\ Taken.command = "CHANGE" /\ Taken.args[1] \in DOMAIN LocalRow(routing_tables)

\* the local row after the step is the old one with the cost of n set to c
ChangedRow ==
  routing_tables'[MyId] = [LocalRow(routing_tables) EXCEPT ![Taken.args[1]].cost = Taken.args[2]]

\* the step sends the serialization of the new local row to exactly the nodes of targets
BroadcastTo(targets) ==
  sent' = {[to |-> k, port |-> routing_tables'[MyId][k].port,
            message |-> GenerateUpdate(routing_tables', MyId), by |-> "calc"] : k \in targets}

\* the entries of the local row that are neither the local node nor down
UpEntries == (DOMAIN LocalRow(routing_tables) \ {MyId}) \ down_nodes

\* no row but the local one has an edge to n
SingleLink(rt, n) == \A k \in DOMAIN rt \ {MyId} : n \notin DOMAIN rt[k]

\* the executor takes QUERY n right after an applied CHANGE n c, n is reached
\* over the direct link only and neither end is down
QueryAfterChange ==
  /\ ExecStep /\ Taken.command = "QUERY"
  /\ executed # <<>> /\ LastExec.cmd.command = "CHANGE"
  /\ LastExec.cmd.args[1] = Taken.args[1]
  /\ Taken.args[1] \in DOMAIN LocalRow(LastExec.pre)
  /\ SingleLink(routing_tables, Taken.args[1])
  /\ MyId \notin down_nodes /\ Taken.args[1] \notin down_nodes

\* the query reports the path <self>n with the cost of the CHANGE
ReportsLink ==
  executed'[Len(executed')].out =
    <<PathMsg(MyId, Taken.args[1], MyId \o Taken.args[1], FormatFloat(LastExec.cmd.args[2]))>>

\* C11 (as stated): CHANGE n c with n in the local row sets the cost of n in
\* the local row to c, leaves the port and the other entries, and sends the
\* serialization of the new local row to every entry of the local row that is
\* neither the local node nor in down_nodes; a QUERY n that follows reports
\* the path <self>n with cost c.
C11_ChangeBroadcastsToUpEntries ==
  [][/\ ChangeStep => (ChangedRow /\ BroadcastTo(UpEntries))
     /\ QueryAfterChange => ReportsLink]_vars

\* C11 (amended): as above, but the payload goes to the neighbours that
\* get_neighbours returns: the up entries while the node is enabled, nobody
\* while it is disabled.
C11_ChangeBroadcastsToNeighbours ==
  [][/\ ChangeStep => (ChangedRow /\ BroadcastTo(IF enabled THEN UpEntries ELSE {}))
     /\ QueryAfterChange => ReportsLink]_vars

\* a CHANGE that reached one neighbour and not the down one, then the QUERY
C11_Witness ==
  /\ Len(executed) >= 3
  /\ LastExec.cmd.command = "QUERY"
  /\ LastExec.out = <<PathMsg(MyId, <<"B">>, <<"A", "B">>, <<"2", ".", "5">>)>>
  /\ executed[Len(executed) - 1].cmd.command = "CHANGE"
  /\ executed[Len(executed) - 1].down = {<<"C">>}
  /\ {d.to : d \in executed[Len(executed) - 1].calls[1].post.sent} = {<<"B">>}

\* the node ids a query can name in this state: those of the graph and the local one
Nodes == AllNodes(routing_tables) \cup {MyId}

\* the model with another set of down nodes
WithDown(D) == [ModelState EXCEPT !.down = D]

\* the path of a "Least cost path" message, as a sequence of one-character ids
PathNodes(msg) == [i \in 1..Len(msg.args[3]) |-> <<msg.args[3][i]>>]

\* a printed message is either no path message or one whose path avoids D and
\* runs from its start to its destination
AvoidsDown(msg, D) ==
  msg.kind = "Least cost path" =>
    /\ \A i \in 1..Len(PathNodes(msg)) : PathNodes(msg)[i] \notin D
    /\ PathNodes(msg)[1] = msg.args[1]
    /\ PathNodes(msg)[Len(PathNodes(msg))] = msg.args[2]

\* what query_path(s, d) prints with the down set D
QueryOut(D, s, d) == QueryPath(WithDown(D), s, d, FALSE).out

\* what print_routing_table prints with the down set D
TableOut(D) == PrintRoutingTable(WithDown(D)).out

\* C12: whenever the executor can run a command, for every set D of down
\* nodes: query_path(s, d) prints one message; it is "No path exists" when s
\* or d is in D, and a reported path holds no node of D; the same for the
\* paths of the routing table.  The rows keep their edges to the nodes of D.
C12_DownExcluded ==
  CalcExecReady =>
    \A D \in SUBSET Nodes :
      /\ \A s, d \in Nodes :
            /\ Len(QueryOut(D, s, d)) = 1
            /\ AvoidsDown(QueryOut(D, s, d)[1], D)
            /\ (s \in D \/ d \in D) => QueryOut(D, s, d) = <<NoPathMsg(s, d)>>
      /\ \A i \in 1..Len(TableOut(D)) : AvoidsDown(TableOut(D)[i], D)

\* QUERY C was answered "No path exists" while B was down and the edges to B
\* and from B to C were in the rows
C12_Witness ==
  /\ executed # <<>>
  /\ LastExec.cmd.command = "QUERY"
  /\ LastExec.out = <<NoPathMsg(MyId, <<"C">>)>>
  /\ LastExec.down = {<<"B">>}
  /\ <<"B">> \in DOMAIN LastExec.pre[MyId]
  /\ <<"B">> \in DOMAIN LastExec.pre /\ <<"C">> \in DOMAIN LastExec.pre[<<"B">>]

\* the costs of the simple directed paths from u to d that avoid the nodes of
\* D and of seen (u itself is in seen)
RECURSIVE PathCosts(_, _, _, _, _)
PathCosts(rt, D, u, d, seen) ==
  IF u = d THEN {0}
  ELSE IF u \notin DOMAIN rt THEN {}
  ELSE UNION {{rt[u][v].cost + c : c \in PathCosts(rt, D, v, d, seen \cup {v})} :
                v \in DOMAIN rt[u] \ (D \cup seen)}

Minimum(S) == CHOOSE x \in S : \A y \in S : x <= y

NonNegative(rt) == \A k \in DOMAIN rt : \A d \in DOMAIN rt[k] : rt[k][d].cost >= 0

\* the result r of _dijkstra(s) is right for the graph rt and the down set D
ShortestFrom(rt, D, s, r) ==
  /\ ~r.hang
  /\ s \in DOMAIN r.distances /\ r.distances[s] = 0
  /\ PathOf(r.previous, s, s) = <<s>>
  /\ \A d \in Nodes \cup DOMAIN r.distances :
        IF PathCosts(rt, D, s, d, {s}) = {}
        THEN d \notin DOMAIN r.distances
        ELSE /\ d \in DOMAIN r.distances
             /\ r.distances[d] = Minimum(PathCosts(rt, D, s, d, {s}))

\* C13: whenever the executor can run a command and the costs are not
\* negative, for every set D of down nodes and every source s not in D,
\* _dijkstra(s) gives every node d the least cost of the directed paths from
\* s to d that avoid D, gives s the cost 0 and the path s, and leaves out
\* exactly the nodes without such a path.
C13_ShortestPaths ==
  (CalcExecReady /\ NonNegative(routing_tables)) =>
    \A D \in SUBSET Nodes : \A s \in Nodes \ D :
      ShortestFrom(routing_tables, D, s, Dijkstra(routing_tables, D, s))

\* a graph where the two-hop path A B C (1.0 + 3.0) beats the direct edge
\* A C (9.0), which is the one left when B is down
C13_Witness ==
  /\ CalcExecReady
  /\ DOMAIN routing_tables = {<<"A">>, <<"B">>}
  /\ <<"C">> \in DOMAIN routing_tables[MyId]
  /\ routing_tables[MyId][<<"C">>].cost = 90
  /\ <<"C">> \in DOMAIN routing_tables[<<"B">>]
  /\ Dijkstra(routing_tables, {}, MyId).distances[<<"C">>] = 40
  /\ Dijkstra(routing_tables, {<<"B">>}, MyId).distances[<<"C">>] = 90
  /\ <<"A">> \notin DOMAIN Dijkstra(routing_tables, {}, <<"B">>).distances

\* from u, over edges between nodes not in D and not in seen, an edge leads
\* back to target
RECURSIVE LeadsBack(_, _, _, _, _)
LeadsBack(rt, D, u, target, seen) ==
  /\ u \in DOMAIN rt
  /\ \E v \in DOMAIN rt[u] \ D :
        \/ v = target
        \/ v \notin seen /\ LeadsBack(rt, D, v, target, seen \cup {v})

\* the graph restricted to the nodes not in D has a directed cycle
HasCycle(rt, D) == \E n \in DOMAIN rt \ D : LeadsBack(rt, D, n, n, {n})

\* the orders in which the dicts can hand out the ids of S
Orders(S) ==
  {o \in [1..Cardinality(S) -> S] : \A i, j \in 1..Cardinality(S) : o[i] = o[j] => i = j}

CycleMsg(found) == Msg(IF found THEN "Cycle detected." ELSE "No cycle found.", <<>>)

\* the directed edges of a graph
Edges(rt) == {<<k, d>> : k \in DOMAIN rt, d \in AllNodes(rt)} \cap
             {e \in AllNodes(rt) \X AllNodes(rt) : e[1] \in DOMAIN rt /\ e[2] \in DOMAIN rt[e[1]]}

\* C14: whenever the executor can run a command, for every set D of down
\* nodes and every iteration order of the dicts, cycle_detect finds a cycle
\* exactly when the graph restricted to the nodes not in D has a directed
\* cycle; and every executed CYCLE DETECT printed "Cycle detected." in that
\* case and "No cycle found." otherwise.
C14_CycleDetect ==
  /\ CalcExecReady =>
        \A D \in SUBSET Nodes : \A order \in Orders(Nodes) :
          CycleFound(routing_tables, D, order) = HasCycle(routing_tables, D)
  /\ \A i \in 1..Len(executed) :
        executed[i].cmd.command = "CYCLE_DETECT" =>
          executed[i].out = <<CycleMsg(HasCycle(executed[i].pre, executed[i].down))>>

\* CYCLE DETECT on exactly the edges A->B, B->C, C->A reported a cycle
C14_Witness ==
  /\ executed # <<>>
  /\ LastExec.cmd.command = "CYCLE_DETECT"
  /\ Edges(LastExec.pre) = {<< <<"A">>, <<"B">> >>, << <<"B">>, <<"C">> >>, << <<"C">>, <<"A">> >>}
  /\ LastExec.down = {}
  /\ LastExec.out = <<CycleMsg(TRUE)>>

\* group 1 of the ids of ids: the first floor(n/2) in sorted order
FirstHalf(ids) == {Sorted(ids)[i] : i \in 1..(Cardinality(ids) \div 2)}

\* a and b lie in different groups of the ids of ids
Separated(ids, a, b) == (a \in FirstHalf(ids)) # (b \in FirstHalf(ids))

\* C15: after SPLIT, with the known ids (row owners and edge destinations of
\* the graph split() was called on) sorted and halved, no row has an edge
\* between the two groups, and the edges inside a group are kept.
C15_SplitRemovesCrossEdges ==
  (executed # <<>> /\ LastExec.cmd.command = "SPLIT") =>
    /\ \A e \in Edges(routing_tables) : ~Separated(AllNodes(LastExec.pre), e[1], e[2])
    /\ \A e \in Edges(LastExec.pre) :
          ~Separated(AllNodes(LastExec.pre), e[1], e[2]) => e \in Edges(routing_tables)

\* the local row of a graph, empty when the local node has no row
RowOf(rt, k) == IF k \in DOMAIN rt THEN rt[k] ELSE EmptyDict

\* a call of run_command that the claim calls a logical no-op
LogicalNoOp(c) ==
  \/ c.cmd.command = "CHANGE" /\ c.cmd.args[1] \notin DOMAIN RowOf(c.pre.rt, MyId)
  \/ c.cmd.command = "MERGE" /\ (c.cmd.args[1] \notin DOMAIN c.pre.rt
                                    \/ c.cmd.args[2] \notin DOMAIN c.pre.rt)

\* C16: every call of run_command (those of a batch included) with CHANGE
\* naming a node that is not in the local row, or MERGE naming a node without
\* a row, leaves the rows, down_nodes, the enabled flag and the cache as they
\* were, sends and prints nothing and raises nothing.
C16_LogicalNoOp ==
  \A i \in 1..Len(executed) : \A j \in 1..Len(executed[i].calls) :
    LogicalNoOp(executed[i].calls[j]) =>
      executed[i].calls[j].post = executed[i].calls[j].pre

\* a call of run_command with a well-formed UPDATE whose routes are not
\* those of the source's row
UpdateDiffers(c) ==
  /\ c.cmd.command = "UPDATE"
  /\ ParseUpdate(c.cmd.args).ok
  /\ ~SameRoutes(c.pre.rt, c.cmd.args)

\* C17: every call of run_command with an UPDATE from S whose routes differ
\* from S's row leaves S's row equal to the received routes, and leaves the
\* other rows, down_nodes and the enabled flag as they were.
C17_UpdateReplacesRow ==
  \A i \in 1..Len(executed) : \A j \in 1..Len(executed[i].calls) :
    UpdateDiffers(executed[i].calls[j]) =>
      LET c == executed[i].calls[j]
          S == c.cmd.args[1]
      IN  /\ DOMAIN c.post.rt = DOMAIN c.pre.rt \cup {S}
          /\ c.post.rt[S] = ParseUpdate(c.cmd.args).routes
          /\ \A k \in DOMAIN c.pre.rt \ {S} : c.post.rt[k] = c.pre.rt[k]
          /\ c.post.down = c.pre.down
          /\ c.post.enabled = c.pre.enabled
          /\ c.post.exc = "none"

\* an UPDATE replaced a row that had an entry the new routes do not have
C17_Witness ==
  /\ executed # <<>>
  /\ UpdateDiffers(LastExec.calls[1])
  /\ LastExec.cmd.args[1] \in DOMAIN LastExec.pre
  /\ DOMAIN LastExec.pre[LastExec.cmd.args[1]] \ DOMAIN routing_tables[LastExec.cmd.args[1]] # {}
  /\ Cardinality(DOMAIN routing_tables) >= 2

\* a route entry that is not dest:cost:port with a numeric cost and an integer port
BadEntry(entry) ==
  \/ Len(SplitOn(entry, ":")) # 3
  \/ ~ParseFloat(SplitOn(entry, ":")[2]).ok
  \/ ~ParseInt(SplitOn(entry, ":")[3]).ok

\* a call of run_command with an UPDATE whose payload has a bad entry
MalformedUpdate(c) ==
  /\ c.cmd.command = "UPDATE"
  /\ \E k \in 1..Len(SplitOn(c.cmd.args[2], ",")) : BadEntry(SplitOn(c.cmd.args[2], ",")[k])

UpdateErrorMsg == Msg("Error: Invalid update packet format.", <<>>)

\* C18: every call of run_command with a malformed UPDATE prints the error,
\* ends with exit status 3 and leaves the graph and down_nodes exactly as they
\* were when update() was called.
C18_MalformedUpdateRejected ==
  \A i \in 1..Len(executed) : \A j \in 1..Len(executed[i].calls) :
    MalformedUpdate(executed[i].calls[j]) =>
      /\ executed[i].calls[j].post.exc = "SystemExit(3)"
      /\ executed[i].calls[j].post.out = Append(executed[i].calls[j].pre.out, UpdateErrorMsg)
      /\ executed[i].calls[j].post.rt = executed[i].calls[j].pre.rt
      /\ executed[i].calls[j].post.down = executed[i].calls[j].pre.down

\* all three kinds of malformed payload were executed, each after a first
\* entry that was well formed
C18_Witness ==
  /\ Len(executed) = 1
  /\ MalformedUpdate(LastExec.calls[1])
  /\ ~BadEntry(SplitOn(LastExec.cmd.args[2], ",")[1])
  /\ <<"B">> \notin DOMAIN routing_tables
  /\ calc_pc = "dead"

\* the executor has processed a malformed UPDATE
FatalUpdate == \E i \in 1..Len(executed) : executed[i].exc = "SystemExit(3)"

\* C19: once the executor has processed a malformed UPDATE, no task takes a
\* further step: nothing is executed, read, enqueued or sent, and no task
\* changes its position.
C19_MalformedUpdateFatal ==
  [][FatalUpdate =>
       /\ executed' = executed
       /\ accepted' = accepted /\ command_queue' = command_queue /\ lastParse' = lastParse
       /\ sent' = {}
       /\ listen_pc' = listen_pc /\ send_pc' = send_pc /\ calc_pc' = calc_pc]_vars

\* the commands that the lines of a batch file parse to, in file order
RECURSIVE ParsedLines(_)
ParsedLines(lines) ==
  IF lines = <<>> THEN <<>>
  ELSE IF ParseCommand(Strip(Head(lines))).status = "ok"
  THEN <<ParseCommand(Strip(Head(lines)))>> \o ParsedLines(Tail(lines))
  ELSE ParsedLines(Tail(lines))

\* the commands that a call of BATCH UPDATE handed to run_command, in order:
\* its nested calls (the call of BATCH UPDATE itself is the last entry)
Applied(e) == [j \in 1..(Len(e.calls) - 1) |-> e.calls[j].cmd]

\* C20: an executed BATCH UPDATE of a file that exists has applied every
\* well-formed command of the file, in file order, skipping the lines that do
\* not parse, and has printed "Batch update complete." last.
C20_BatchSkipsBadLines ==
  \A i \in 1..Len(executed) :
    (executed[i].cmd.command = "BATCH_UPDATE" /\ executed[i].cmd.args[1] \in DOMAIN BatchFiles) =>
      /\ Applied(executed[i]) = ParsedLines(BatchFiles[executed[i].cmd.args[1]])
      /\ executed[i].out # <<>>
      /\ executed[i].out[Len(executed[i].out)] = Msg("Batch update complete.", <<>>)

\* a call of run_command with the result of a QUERY PATH <Src> <Dst> line
QueryPathCall(c) == c.cmd.command = "QUERY_PATH" /\ Len(c.cmd.args) = 2

\* Dst is reachable from Src in the state the call was made on, neither down
ReachableAt(c) ==
  /\ c.cmd.args[1] \notin c.pre.down
  /\ c.cmd.args[2] \notin c.pre.down
  /\ c.cmd.args[2] \in DOMAIN Dijkstra(c.pre.rt, c.pre.down, c.cmd.args[1]).distances

\* the call printed exactly one message, the outcome that the state calls for
OneOutcome(c) ==
  /\ Len(c.post.out) = Len(c.pre.out) + 1
  /\ SubSeq(c.post.out, 1, Len(c.pre.out)) = c.pre.out
  /\ IF ReachableAt(c)
     THEN /\ c.post.out[Len(c.post.out)].kind = "Least cost path"
          /\ SubSeq(c.post.out[Len(c.post.out)].args, 1, 2) = c.cmd.args
     ELSE c.post.out[Len(c.post.out)] = NoPathMsg(c.cmd.args[1], c.cmd.args[2])

\* C21: every executed QUERY PATH <Src> <Dst> reports exactly one outcome:
\* the least cost path when Dst is reachable from Src and neither is down,
\* "No path exists" otherwise.
C21_QueryPathReports ==
  \A i \in 1..Len(executed) : \A j \in 1..Len(executed[i].calls) :
    QueryPathCall(executed[i].calls[j]) => OneOutcome(executed[i].calls[j])

\* a single upper-case letter
IsNodeToken(tok) == \E c \in {Alphabet[i] : i \in 17..42} : tok = <<c>>

\* the command table: the token lists that are a command
Shape(t) ==
  \/ Len(t) = 3 /\ t[1] = kUPDATE
  \/ Len(t) = 3 /\ t[1] = kCHANGE /\ IsNodeToken(t[2]) /\ ParseFloat(t[3]).ok
  \/ Len(t) = 2 /\ t[1] \in {kFAIL, kRECOVER, kQUERY} /\ IsNodeToken(t[2])
  \/ Len(t) \in {3, 4} /\ t[1] = kQUERY /\ t[2] = kPATH
       /\ \A i \in 3..Len(t) : IsNodeToken(t[i])
  \/ Len(t) = 3 /\ t[1] = kMERGE /\ IsNodeToken(t[2]) /\ IsNodeToken(t[3])
  \/ Len(t) = 1 /\ t[1] \in {kSPLIT, kRESET}
  \/ Len(t) = 2 /\ t[1] = kCYCLE /\ t[2] = kDETECT
  \/ Len(t) = 3 /\ t[1] = kBATCH /\ t[2] = kUPDATE

\* the words of a line: the maximal runs of non-blank characters
RECURSIVE Words(_, _)
Words(s, word) ==
  IF s = <<>> THEN IF word = <<>> THEN <<>> ELSE <<word>>
  ELSE IF Head(s) = " "
  THEN IF word = <<>> THEN Words(Tail(s), <<>>) ELSE <<word>> \o Words(Tail(s), <<>>)
  ELSE Words(Tail(s), Append(word, Head(s)))

\* C22: parse_command accepts a line with words exactly when they match a
\* shape of the command table, exits with status 2 on every other line with
\* words, and returns None for a line without words.
C22_ParserAcceptsShapes ==
  /\ (lastParse.result.status = "ok")
       <=> (Words(lastParse.line, <<>>) # <<>> /\ Shape(Words(lastParse.line, <<>>)))
  /\ (lastParse.result.status = "none") <=> (Words(lastParse.line, <<>>) = <<>>)
  /\ (lastParse.result.status = "exit2")
       <=> (Words(lastParse.line, <<>>) # <<>> /\ ~Shape(Words(lastParse.line, <<>>)))

\* parse_command has accepted the four-token QUERY PATH written with double
\* blanks and blanks around
C22_Witness ==
  /\ inbox = <<>>
  /\ lastParse.result = Cmd("QUERY_PATH", << <<"A">>, <<"A">> >>)
  /\ Len(lastParse.line) = 17

\* the message that query_path(s, d) prints on the graph rt with the down set D
ReportOf(rt, D, s, d) == QueryPath([ModelState EXCEPT !.rt = rt, !.down = D], s, d, FALSE).out[1]

\* the cost of a "Least cost path" message, in tenths
ReportedCost(msg) == ParseFloat(msg.args[4]).val

\* v lies strictly between the ends of the path of the message
Between(msg, v) ==
  /\ msg.kind = "Least cost path"
  /\ \E i \in 2..(Len(msg.args[3]) - 1) : <<msg.args[3][i]>> = v

\* this step is fail(v) for a node v that was up
FailStep(v) ==
  /\ v \notin down_nodes
  /\ down_nodes' = down_nodes \cup {v}
  /\ routing_tables' = routing_tables
  /\ Len(executed') = Len(executed) + 1
  /\ executed'[Len(executed')].cmd = Cmd("fail", <<v>>)

StrictlyPositive(rt) == \A k \in DOMAIN rt : \A d \in DOMAIN rt[k] : rt[k][d].cost > 0

\* C23 as stated: when fail(v) marks down a node v strictly between s and d
\* on the reported path, the cost reported afterwards is strictly greater or
\* no path is reported.
C23_FailStrictlyIncreases ==
  [][\A v \in NodeIds, s \in NodeIds, d \in NodeIds :
       (FailStep(v) /\ StrictlyPositive(routing_tables)
          /\ Between(ReportOf(routing_tables, down_nodes, s, d), v)) =>
         \/ ReportOf(routing_tables', down_nodes', s, d) = NoPathMsg(s, d)
         \/ ReportedCost(ReportOf(routing_tables', down_nodes', s, d))
              > ReportedCost(ReportOf(routing_tables, down_nodes, s, d))]_vars

\* C23, amended: the cost reported afterwards is not lower than before, and
\* the node v is no longer on the path, or no path is reported.
C23_FailNeverDecreases ==
  [][\A v \in NodeIds, s \in NodeIds, d \in NodeIds :
       (FailStep(v) /\ StrictlyPositive(routing_tables)
          /\ Between(ReportOf(routing_tables, down_nodes, s, d), v)) =>
         \/ ReportOf(routing_tables', down_nodes', s, d) = NoPathMsg(s, d)
         \/ /\ ReportOf(routing_tables', down_nodes', s, d).kind = "Least cost path"
            /\ ~Between(ReportOf(routing_tables', down_nodes', s, d), v)
            /\ ReportedCost(ReportOf(routing_tables', down_nodes', s, d))
                 >= ReportedCost(ReportOf(routing_tables, down_nodes, s, d))]_vars

\* fail(B) has been called on a graph where the path A-B-D was reported, and
\* A-C-D is now reported at a higher cost
C23_Witness ==
  /\ Len(executed) = 1
  /\ LastExec.cmd = Cmd("fail", << <<"B">> >>)
  /\ Between(ReportOf(routing_tables, {}, <<"A">>, <<"D">>), <<"B">>)
  /\ ReportOf(routing_tables, down_nodes, <<"A">>, <<"D">>).kind = "Least cost path"
  /\ ReportedCost(ReportOf(routing_tables, down_nodes, <<"A">>, <<"D">>))
       > ReportedCost(ReportOf(routing_tables, {}, <<"A">>, <<"D">>))

\* this step is a pass of sending_loop with a payload in the cache
ResendStep ==
  /\ SendTickReady /\ running /\ cached.set
  /\ UNCHANGED << lockVars, modelVars, initial_table, running, input_queue, command_queue,
                  inbox, listen_pc, send_pc, calc_pc, palette, arrived, histVars >>

\* C24: every periodic re-send goes to exactly the neighbours that
\* get_neighbours() returns when the re-send is made.
C24_ResendToCurrentNeighbours ==
  [][ResendStep => {d.to : d \in sent'} = DOMAIN GetNeighbours(ModelState).nb]_vars

\* C25: in every state broadcasting is enabled exactly when the local node
\* is not in down_nodes.
C25_EnabledIffNotDown == enabled <=> (MyId \notin down_nodes)

\* the lower of two costs
Lower(a, b) == IF b < a THEN b ELSE a

\* the last call was merge(node1, node2) on a graph with both rows
MergedBoth ==
  /\ executed # <<>>
  /\ LastExec.cmd.command = "merge"
  /\ LastExec.cmd.args[1] \in DOMAIN LastExec.pre
  /\ LastExec.cmd.args[2] \in DOMAIN LastExec.pre

\* node1 has, for every destination x of node2 other than the two merged
\* nodes, an edge to x at the lower cost
Adopted(pre, post, node1, node2) ==
  \A x \in DOMAIN pre[node2] \ {node1, node2} :
    /\ node1 \in DOMAIN post
    /\ x \in DOMAIN post[node1]
    /\ post[node1][x].cost = IF x \in DOMAIN pre[node1]
                              THEN Lower(pre[node1][x].cost, pre[node2][x].cost)
                              ELSE pre[node2][x].cost

\* every remaining row that had an edge to node2 has an edge to node1
\* instead, at the lower cost when it had both
Redirected(pre, post, node1, node2) ==
  \A k \in DOMAIN pre \ {node2} :
    node2 \in DOMAIN pre[k] =>
      /\ k \in DOMAIN post
      /\ node2 \notin DOMAIN post[k]
      /\ node1 \in DOMAIN post[k]
      /\ post[k][node1].cost = IF node1 \in DOMAIN pre[k]
                               THEN Lower(pre[k][node1].cost, pre[k][node2].cost)
                               ELSE pre[k][node2].cost

\* C26: after merge(node1, node2) on a graph with both rows, node1 has the
\* edges of node2 at the lower cost, and every remaining row has its edge to
\* node2 replaced by an edge to node1 at the lower cost.
C26_MergeAdoptsEdges ==
  MergedBoth =>
    /\ Adopted(LastExec.pre, routing_tables, LastExec.cmd.args[1], LastExec.cmd.args[2])
    /\ Redirected(LastExec.pre, routing_tables, LastExec.cmd.args[1], LastExec.cmd.args[2])

\* a call of run_command with FAIL or RECOVER of a node other than the local one
FailOther(c) == c.cmd.command = "FAIL" /\ c.cmd.args[1] # MyId

RecoverOther(c) == c.cmd.command = "RECOVER" /\ c.cmd.args[1] # MyId

\* C27: a call of run_command with FAIL X, X not the local node, only adds X
\* to down_nodes, and one with RECOVER X only removes it, down or not: the
\* rows, the enabled flag and the cache stay as they were, nothing is sent or
\* printed and nothing is raised.
C27_FailRecoverOtherFrame ==
  \A i \in 1..Len(executed) : \A j \in 1..Len(executed[i].calls) :
    /\ FailOther(executed[i].calls[j]) =>
         executed[i].calls[j].post =
           [executed[i].calls[j].pre EXCEPT !.down = @ \cup {executed[i].calls[j].cmd.args[1]}]
    /\ RecoverOther(executed[i].calls[j]) =>
         executed[i].calls[j].post =
           [executed[i].calls[j].pre EXCEPT !.down = @ \ {executed[i].calls[j].cmd.args[1]}]

\* the local row has an edge to B; FAIL B, RECOVER B and a second RECOVER B,
\* of a node that is not down, were executed with the cache set
C27_Witness ==
  /\ Len(executed) = 3
  /\ executed[1].cmd.command = "FAIL" /\ executed[1].cmd.args[1] = <<"B">>
  /\ executed[2].cmd.command = "RECOVER" /\ executed[2].cmd.args[1] = <<"B">>
  /\ executed[3].cmd.command = "RECOVER" /\ executed[3].cmd.args[1] = <<"B">>
  /\ <<"B">> \notin executed[3].calls[1].pre.down
  /\ executed[3].calls[1].pre.cached.set
  /\ <<"B">> \in DOMAIN routing_tables[MyId]
  /\ down_nodes = {}

\* the sum of the costs of the edges along the nodes, in tenths
RECURSIVE PathSum(_, _)
PathSum(rt, nodes) ==
  IF Len(nodes) < 2 THEN 0
  ELSE rt[nodes[1]][nodes[2]].cost + PathSum(rt, Tail(nodes))

\* the path of the message runs from s to d over edges of rt, repeats no
\* node, and the cost of the message is the sum of the costs of its edges
RealPath(rt, s, d, msg) ==
  /\ PathNodes(msg) # <<>>
  /\ PathNodes(msg)[1] = s
  /\ PathNodes(msg)[Len(PathNodes(msg))] = d
  /\ \A i \in 1..(Len(PathNodes(msg)) - 1) :
       /\ PathNodes(msg)[i] \in DOMAIN rt
       /\ PathNodes(msg)[i + 1] \in DOMAIN rt[PathNodes(msg)[i]]
  /\ \A i \in 1..Len(PathNodes(msg)) : \A j \in 1..Len(PathNodes(msg)) :
       i # j => PathNodes(msg)[i] # PathNodes(msg)[j]
  /\ ParseFloat(msg.args[4]).ok
  /\ ReportedCost(msg) = PathSum(rt, PathNodes(msg))

\* a call of query_path that reported a path
ReportedPath(e) ==
  /\ e.cmd.command = "query_path"
  /\ e.out # <<>>
  /\ e.out[1].kind = "Least cost path"

\* C28: every path that query_path reports is a path of the graph it was
\* called on: from the source to the destination, over edges present in the
\* rows, without a repeated node, and at the cost that its edges add up to.
C28_ReportedPathIsReal ==
  \A i \in 1..Len(executed) :
    ReportedPath(executed[i]) =>
      RealPath(executed[i].pre, executed[i].cmd.args[1], executed[i].cmd.args[2],
               executed[i].out[1])

\* after fail(B), query_path(A, D) has reported the three-node path A C D
C28_Witness ==
  /\ Len(executed) = 2
  /\ executed[1].cmd = Cmd("fail", << <<"B">> >>)
  /\ executed[2].cmd = Cmd("query_path", << <<"A">>, <<"D">> >>)
  /\ ReportedPath(executed[2])
  /\ executed[2].out[1].args[3] = <<"A", "C", "D">>

\* the datagrams of the initial broadcast: the local row, to every neighbour
InitialBroadcast ==
  Datagrams(GetNeighbours(ModelState).nb, GenerateUpdate(routing_tables, MyId), "calc")

\* C29: while calc_loop is in its initial delay no command is executed, the
\* graph and the cache are untouched and nothing is sent; the step that ends
\* the delay sends the local row to the neighbours and executes nothing; the
\* commands accepted meanwhile stay queued in arrival order, and commands are
\* executed in that order.
C29_NothingBeforeBroadcast ==
  [][/\ calc_pc = "delay" =>
          /\ executed = <<>> /\ executed' = <<>>
          /\ routing_tables' = routing_tables /\ down_nodes' = down_nodes
          /\ [i \in 1..Len(command_queue') |-> command_queue'[i].id] = accepted'
          /\ IF calc_pc' = "delay"
             THEN sent' = {} /\ cached' = NoCache
             ELSE /\ sent' = InitialBroadcast
                  /\ cached'.set /\ cached'.message = GenerateUpdate(routing_tables, MyId)
     /\ \A i \in 1..Len(executed') : executed'[i].id = accepted'[i]]_vars

\* the delay has not elapsed and MaxLines commands are queued
C29_Witness ==
  /\ calc_pc = "delay"
  /\ Len(command_queue) = MaxLines
  /\ running
  /\ listen_pc = "select"

\* what print_routing_table prints on the graph and down set of the snapshot s
TableFor(s) ==
  PrintRoutingTable([ModelState EXCEPT !.rt = s.rt, !.down = s.down,
                                       !.enabled = s.enabled]).out

\* the call of run_command that the executor made for the entry e: the last
\* of its calls, the nested ones of a batch coming before it
OuterCall(e) == e.calls[Len(e.calls)]

\* C30: the routing table that the executor prints for a command, everything
\* printed before run_command is called, is the table of the graph and down
\* set that the command leaves.
C30_TableIsResulting ==
  \A i \in 1..Len(executed) :
    executed[i].calls # <<>> =>
      OuterCall(executed[i]).pre.out = TableFor(OuterCall(executed[i]).post)

\* the graph rows, the down set or the enabled flag change in this step
GraphWritten ==
  routing_tables' # routing_tables \/ down_nodes' # down_nodes \/ enabled' # enabled

\* C31: once the tasks are started, every step that changes the graph rows,
\* the down set or the enabled flag is taken by the calc task while it holds
\* model_lock: no step of the listener, of the sender or of calc_loop before
\* its loop changes them.
C31_GraphWrittenUnderLock ==
  [][GraphWritten => model_lock = "calc" /\ calc_pc \in {"locked", "caching"}]_vars

\* commands have changed the rows, the down set and the enabled flag, and the
\* lock has been given back
C31_Witness ==
  /\ Len(executed) >= 2
  /\ DOMAIN routing_tables # {MyId}
  /\ down_nodes # {}
  /\ ~enabled
  /\ model_lock = "free"

\* the costs stored in the rows of the graph
StoredCosts(rt) == UNION {{rt[k][d].cost : d \in DOMAIN rt[k]} : k \in DOMAIN rt}

\* C32: in every reachable state every edge cost stored in the graph is >= 0.
C32_CostsNonNegative == \A c \in StoredCosts(routing_tables) : c >= 0

\* the commands that the claim allows to change the local row
LocalCommands == {"CHANGE", "RECOVER", "RESET", "MERGE", "SPLIT"}

\* C33: the local row is changed only by the local commands CHANGE, RECOVER,
\* RESET, MERGE and SPLIT: a step that changes it is the execution of one of
\* them; in particular an UPDATE naming the local node leaves it alone.
C33_LocalRowAuthoritative ==
  [][LocalRow(routing_tables') # LocalRow(routing_tables)
       => ExecStep /\ Taken.command \in LocalCommands]_vars

\* a command waits in the queue of a node that is not stopped
Waiting == running /\ command_queue # <<>>

\* C34: no command makes the executor terminate or stop draining the queue
\* while the node is not stopped: in no state has calc_loop ended (by an
\* exception, or inside a computation that does not return) while a command
\* that the listener enqueued waits, which then is never executed.
C34_ExecutorKeepsDraining == Waiting => calc_pc \notin {"dead", "hung"}

\* a call of _dijkstra has not returned after MaxPops pops of its heap
Hung == calc_pc = "hung" \/ \E i \in 1..Len(executed) : executed[i].exc = "hang"

\* C35: the shortest-path computation terminates in every graph state that
\* accepted CHANGE and UPDATE commands lead to: no QUERY and no recomputation
\* of the routes is left running.
C35_ShortestPathTerminates == ~Hung

\* the calc task holds cache_lock only inside its model_lock block
CacheInsideModel == cache_lock = "calc" => model_lock = "calc"

\* the same, but for the first broadcast, which calc_loop makes before its loop
CacheInsideModelOrStart ==
  cache_lock = "calc" => model_lock = "calc" \/ calc_pc = "starting"

\* the sender takes cache_lock only, and whoever holds a lock is inside the
\* block that gives it back: nobody waits for one lock while holding the
\* lock that the other task waits for
HoldersProceed ==
  /\ model_lock \in {"free", "calc"}
  /\ model_lock = "calc" => calc_pc \in {"locked", "caching"}
  /\ cache_lock = "calc" => calc_pc \in {"starting", "caching"}
  /\ cache_lock = "send" => send_pc = "locked"
  /\ ~(send_pc = "want" /\ cache_lock = "calc" /\ calc_pc = "locked")

\* every task that asks for a lock gets it
RequestsServed ==
  /\ (send_pc = "want") ~> (send_pc = "locked")
  /\ (calc_pc = "delay") ~> (calc_pc = "starting")
  /\ CalcExecReady ~> (model_lock = "calc")
  /\ WantsCache ~> (calc_pc = "caching")

LocalRowChanged ==
  \E i \in 1..Len(executed) :
    /\ executed[i].calls # <<>>
    /\ RowOf(OuterCall(executed[i]).post.rt, MyId) # RowOf(OuterCall(executed[i]).pre.rt, MyId)

\* C37: once an executed command has changed the local row, every periodic
\* re-send carries the serialization of the local row as it is when the
\* re-send is made, not of an older one.
C37_ResendFollowsLocalRow ==
  [][ResendStep /\ LocalRowChanged
       => \A d \in sent' : d.message = GenerateUpdate(routing_tables, MyId)]_vars

\* C38: in every reachable state the local node owns a row of the graph.
C38_LocalRowExists == MyId \in DOMAIN routing_tables

\* the last call was a merge that printed "Graph merged successfully."
MergeReported ==
  /\ executed # <<>>
  /\ LastExec.cmd.command = "merge"
  /\ \E i \in 1..Len(LastExec.out) : LastExec.out[i].kind = "Graph merged successfully."

\* C39: after merge(node1, node2) has reported "Graph merged successfully.",
\* node1 still owns a row, whatever the arguments, node1 = node2 included.
C39_MergeKeepsNode1 == MergeReported => LastExec.cmd.args[1] \in DOMAIN routing_tables

\* the rows that hold an edge from their owner to itself
SelfLoops(rt) == {k \in DOMAIN rt : k \in DOMAIN rt[k]}

\* C40: no row ever holds an edge from a node to itself, the configuration
\* and the UPDATEs received holding none.
C40_NoSelfLoops == SelfLoops(routing_tables) = {}


====
